---- MODULE Spec2Model ----
(***************************************************************************)
(* Retrieval and verification core of LifeGuardPro: reciprocal rank fusion *)
(* (retrieval/rrf_fusion.py), MMR selection (retrieval/mmr_diversity.py),  *)
(* claim classification (verification/verifier.py) and the orchestrating   *)
(* call execute_rag_search (core/rag_executor.py).                         *)
(*                                                                         *)
(* Numbers.  The code computes with floats; the model computes with exact  *)
(* rationals.  Every relevance score (bm25_score, vector_score, rrf_score) *)
(* is an integer numerator over the common denominator Unit, every cosine  *)
(* similarity a numerator over SimDen, every claim similarity a numerator  *)
(* over SimScale and every claim confidence a numerator over ConfScale.    *)
(*                                                                         *)
(* Optional values.  A dict key that may be absent (or None) is a sequence *)
(* of length 0 (absent) or 1 (present): <<>> or <<v>>.                     *)
(***************************************************************************)
EXTENDS Integers, Sequences, FiniteSets, TLC

\* ------------------------------------------------------------------------
\* Bounds of the model
\* ------------------------------------------------------------------------

\* most query variants expand_query hands to the search loop
MaxVariants == 2
\* LIMIT of one corpus query (website_top_k / internal_top_k)
MaxHits == 1
\* chunk ids 1..NumIds exist in the website corpus
NumIds == 2
\* most rows the backends return during one call of execute_rag_search
MaxTotalHits == 2
\* largest configured selection size (MMR_FINAL)
MaxN == 2
\* longest list handed to rrf_fusion when it is checked on its own
MaxFuseLen == 2
\* most candidates handed to mmr_select when it is checked on its own
MaxCands == 3
\* most evidence mappings handed to verify_all_claims
MaxClaims == 2

\* ------------------------------------------------------------------------
\* Arithmetic helpers
\* ------------------------------------------------------------------------

Max(a, b) == IF a >= b THEN a ELSE b

Min(a, b) == IF a <= b THEN a ELSE b

RECURSIVE Gcd(_, _)
Gcd(a, b) == IF b = 0 THEN a ELSE Gcd(b, a % b)

Lcm(a, b) == (a \div Gcd(a, b)) * b

RECURSIVE LcmOfSet(_)
LcmOfSet(S) ==
    IF S = {} THEN 1
    ELSE LET x == CHOOSE y \in S : TRUE IN Lcm(x, LcmOfSet(S \ {x}))

RECURSIVE SumSeq(_)
SumSeq(s) == IF s = <<>> THEN 0 ELSE Head(s) + SumSeq(Tail(s))

\* [x for x in s if x[field] == value], from position i on
RECURSIVE SelectEq(_, _, _, _)
SelectEq(s, field, value, i) ==
    IF i > Len(s) THEN <<>>
    ELSE (IF s[i][field] = value THEN <<s[i]>> ELSE <<>>)
             \o SelectEq(s, field, value, i + 1)

\* [x for x in s if x[field] is present], from position i on
RECURSIVE SelectPresent(_, _, _)
SelectPresent(s, field, i) ==
    IF i > Len(s) THEN <<>>
    ELSE (IF s[i][field] # <<>> THEN <<s[i]>> ELSE <<>>)
             \o SelectPresent(s, field, i + 1)

RECURSIVE Flatten(_)
Flatten(ss) == IF ss = <<>> THEN <<>> ELSE Head(ss) \o Flatten(Tail(ss))

\* s without its i-th element (list.pop(i))
RemoveAt(s, i) == SubSeq(s, 1, i - 1) \o SubSeq(s, i + 1, Len(s))

\* s[:m]
Prefix(s, m) == SubSeq(s, 1, Min(Len(s), Max(m, 0)))

\* ------------------------------------------------------------------------
\* Scores
\* ------------------------------------------------------------------------

\* values of RRF_K the model runs with (rag_config "k_parameter")
KValues == {1, 2}

\* longest list rrf_fusion can be handed within the bounds
MaxRank == Max(MaxFuseLen, MaxVariants * 2 * MaxHits)

\* common denominator of all relevance scores: every 1/(k + rank) is a
\* whole number of 1/Unit
Unit == LcmOfSet({k + r : k \in KValues, r \in 1..MaxRank})

\* native scores a backend reports (ts_rank, 1 - distance), over Unit
ScoreValues == {Unit \div 4, Unit \div 2}

\* ------------------------------------------------------------------------
\* Chunk records (the dicts the search functions return)
\* ------------------------------------------------------------------------

\* chunk.get("chunk_id") is None
NoId == 0

\* embeddings stored with the chunks; all have integer norms
EmbValues == {<<1, 0>>, <<0, 1>>, <<-1, 0>>, <<3, 4>>}

\* common denominator of the cosine similarities of EmbValues
SimDen == 5 * 5

\* a row of bm25_search / bm25_search_internal
Bm25Hit(id, src, score) ==
    [chunk_id |-> id, source_type |-> src, retrieval_method |-> "bm25",
     bm25_score |-> <<score>>, vector_score |-> <<>>, embedding |-> <<>>,
     rrf_score |-> <<>>, found_in_methods |-> <<>>, in_both_methods |-> FALSE,
     mmr_score |-> <<>>]

\* a row of vector_search / vector_search_internal; emb is <<>> or <<vector>>
VectorHit(id, src, score, emb) ==
    [chunk_id |-> id, source_type |-> src, retrieval_method |-> "vector",
     bm25_score |-> <<>>, vector_score |-> <<score>>, embedding |-> emb,
     rrf_score |-> <<>>, found_in_methods |-> <<>>, in_both_methods |-> FALSE,
     mmr_score |-> <<>>]

\* position of the first record of data with this chunk_id, 0 when there is none
IndexOfId(data, id) ==
    IF \E j \in 1..Len(data) : data[j].chunk_id = id
    THEN CHOOSE j \in 1..Len(data) :
            /\ data[j].chunk_id = id
            /\ \A h \in 1..(j - 1) : data[h].chunk_id # id
    ELSE 0

\* ------------------------------------------------------------------------
\* retrieval/rrf_fusion.py
\* ------------------------------------------------------------------------

\* the default of the parameter k of rrf_fusion
DefaultK == 60

\* common denominator of the scores of a fusion with k = DefaultK: every
\* 1/(DefaultK + rank) of a list of the model, and of one rank more, is a
\* whole number of 1/DefaultUnit
DefaultUnit == LcmOfSet({DefaultK + r : r \in 1..(MaxFuseLen + 1)})

\* the unit of the scores of a fusion with parameter k
UnitOf(k) == IF k = DefaultK THEN DefaultUnit ELSE Unit

\* a term that counts the ranks from 2
RRFTermFromTwo(k, rank) == UnitOf(k) \div (k + rank + 1)

\* 1.0 / (k + rank), over Unit (over DefaultUnit when k = DefaultK)
RRFTerm(k, rank) == UnitOf(k) \div (k + rank)

\* The two dicts of rrf_fusion: rrf_scores (chunk_id -> score) and chunk_data
\* (chunk_id -> record, in insertion order).  data is the sequence of the
\* values of chunk_data in insertion order, scores[j] the score of data[j].
EmptyAcc == [data |-> <<>>, scores |-> <<>>]

\* one iteration of the loop over bm25_results
Bm25Step(acc, result, k, rank) ==
    LET id == result.chunk_id
        j  == IndexOfId(acc.data, id)
    IN  IF id = NoId THEN acc
        ELSE IF j = 0
        THEN [data   |-> Append(acc.data, result),
              scores |-> Append(acc.scores, RRFTerm(k, rank))]
        ELSE [data   |-> [acc.data EXCEPT ![j].bm25_score = result.bm25_score],
              scores |-> [acc.scores EXCEPT ![j] = @ + RRFTerm(k, rank)]]

\* the merge branch of the loop over vector_results without the vector_score
VectorStepDropsScore(acc, result, k, rank) ==
    LET id == result.chunk_id
        j  == IndexOfId(acc.data, id)
    IN  IF id = NoId THEN acc
        ELSE IF j = 0
        THEN [data   |-> Append(acc.data, result),
              scores |-> Append(acc.scores, RRFTerm(k, rank))]
        ELSE [data   |-> [acc.data EXCEPT
                             ![j].embedding = IF result.embedding # <<>>
                                              THEN result.embedding ELSE @],
              scores |-> [acc.scores EXCEPT ![j] = @ + RRFTerm(k, rank)]]

\* one iteration of the loop over vector_results
VectorStep(acc, result, k, rank) ==
    LET id == result.chunk_id
        j  == IndexOfId(acc.data, id)
    IN  IF id = NoId THEN acc
        ELSE IF j = 0
        THEN [data   |-> Append(acc.data, result),
              scores |-> Append(acc.scores, RRFTerm(k, rank))]
        ELSE [data   |-> [acc.data EXCEPT
                             ![j].vector_score = result.vector_score,
                             ![j].embedding = IF result.embedding # <<>>
                                              THEN result.embedding ELSE @],
              scores |-> [acc.scores EXCEPT ![j] = @ + RRFTerm(k, rank)]]

\* for rank, result in enumerate(bm25_results, start=1)
RECURSIVE Bm25Loop(_, _, _, _)
Bm25Loop(acc, results, k, rank) ==
    IF rank > Len(results) THEN acc
    ELSE Bm25Loop(Bm25Step(acc, results[rank], k, rank), results, k, rank + 1)

\* for rank, result in enumerate(vector_results, start=1)
RECURSIVE VectorLoop(_, _, _, _)
VectorLoop(acc, results, k, rank) ==
    IF rank > Len(results) THEN acc
    ELSE VectorLoop(VectorStep(acc, results[rank], k, rank), results, k, rank + 1)

\* Step 2 of rrf_fusion for one chunk: rrf_score, found_in_methods,
\* in_both_methods
Annotate(chunk, score) ==
    LET methods == (IF chunk.bm25_score # <<>> THEN <<"bm25">> ELSE <<>>)
                   \o (IF chunk.vector_score # <<>> THEN <<"vector">> ELSE <<>>)
    IN  [chunk EXCEPT !.rrf_score = <<score>>,
                      !.found_in_methods = methods,
                      !.in_both_methods = (Len(methods) = 2)]

\* the sort key of the fused and selected lists: x["rrf_score"]
RrfKey(chunk) == chunk.rrf_score[1]

\* x placed before the first element with a key not larger than its own: a
\* sort that reverses the input order of equal keys
RECURSIVE InsertUnstable(_, _)
InsertUnstable(sorted, x) ==
    IF sorted = <<>> THEN <<x>>
    ELSE IF RrfKey(Head(sorted)) > RrfKey(x)
         THEN <<Head(sorted)>> \o InsertUnstable(Tail(sorted), x)
         ELSE <<x>> \o sorted

\* x placed behind every element of the descending list sorted whose key is
\* at least its own
RECURSIVE InsertDesc(_, _)
InsertDesc(sorted, x) ==
    IF sorted = <<>> THEN <<x>>
    ELSE IF RrfKey(Head(sorted)) >= RrfKey(x)
         THEN <<Head(sorted)>> \o InsertDesc(Tail(sorted), x)
         ELSE <<x>> \o sorted

\* list.sort(key=rrf_score, reverse=True): descending and stable
RECURSIVE SortDesc(_)
SortDesc(s) ==
    IF s = <<>> THEN <<>>
    ELSE InsertDesc(SortDesc(SubSeq(s, 1, Len(s) - 1)), s[Len(s)])

rrf_fusion(bm25_results, vector_results, k) ==
    LET acc   == VectorLoop(Bm25Loop(EmptyAcc, bm25_results, k, 1),
                            vector_results, k, 1)
        fused == [j \in 1..Len(acc.data) |-> Annotate(acc.data[j], acc.scores[j])]
    IN  SortDesc(fused)

\* ------------------------------------------------------------------------
\* retrieval/mmr_diversity.py
\* ------------------------------------------------------------------------

Dot(v, w) == SumSeq([d \in 1..Len(v) |-> v[d] * w[d]])

\* np.linalg.norm for the vectors of the model, whose norms are whole numbers
Norm(v) == CHOOSE r \in 0..Dot(v, v) : r * r = Dot(v, v)

\* cosine_similarity of mmr_diversity.py (not clamped), over SimDen
cosine_similarity(vec1, vec2) ==
    IF Norm(vec1) = 0 \/ Norm(vec2) = 0 THEN 0
    ELSE (Dot(vec1, vec2) * SimDen) \div (Norm(vec1) * Norm(vec2))

\* values of lambda_param <<numerator, denominator>>: the default of
\* mmr_select and the default of rag_config
LambdaValues == {<<7, 10>>, <<3, 4>>}

\* relevance = candidate.get("rrf_score"), else vector_score, else bm25_score,
\* else 0.0
Relevance(candidate) ==
    IF candidate.rrf_score # <<>> THEN candidate.rrf_score[1]
    ELSE IF candidate.vector_score # <<>> THEN candidate.vector_score[1]
    ELSE IF candidate.bm25_score # <<>> THEN candidate.bm25_score[1]
    ELSE 0

\* max_similarity of one candidate: starts at 0.0 and is raised by the cosine
\* to every selected chunk that has an embedding
RECURSIVE MaxSimilarity(_, _, _)
MaxSimilarity(candidate_emb, selected, j) ==
    IF j > Len(selected) THEN 0
    ELSE LET rest == MaxSimilarity(candidate_emb, selected, j + 1)
         IN  IF selected[j].embedding # <<>>
             THEN Max(rest, cosine_similarity(candidate_emb, selected[j].embedding[1]))
             ELSE rest

\* lambda_param * relevance - (1 - lambda_param) * max_similarity, over
\* lambda[2] * Unit * SimDen
MmrScore(lambda, relevance, max_similarity) ==
    lambda[1] * relevance * SimDen - (lambda[2] - lambda[1]) * max_similarity * Unit

\* The scan "for i, candidate in enumerate(remaining)" from position i on.
\* best.score is <<>> for -inf; best.idx is the position of the best so far
\* (the first position before any candidate was scored).
RECURSIVE BestScan(_, _, _, _, _)
BestScan(remaining, selected, lambda, i, best) ==
    IF i > Len(remaining) THEN best
    ELSE LET candidate == remaining[i]
             mmr_score ==
                 MmrScore(lambda, Relevance(candidate),
                          MaxSimilarity(candidate.embedding[1], selected, 1))
         IN  IF candidate.embedding = <<>>
             THEN BestScan(remaining, selected, lambda, i + 1, best)
             ELSE IF best.score = <<>> \/ mmr_score > best.score[1]
             THEN BestScan(remaining, selected, lambda, i + 1,
                           [score |-> <<mmr_score>>, idx |-> i])
             ELSE BestScan(remaining, selected, lambda, i + 1, best)

\* while len(selected) < n and remaining
RECURSIVE MmrLoop(_, _, _, _)
MmrLoop(selected, remaining, n, lambda) ==
    IF ~(Len(selected) < n /\ remaining # <<>>) THEN selected
    ELSE LET best   == BestScan(remaining, selected, lambda, 1,
                                [score |-> <<>>, idx |-> 1])
             picked == [remaining[best.idx] EXCEPT !.mmr_score = best.score]
         IN  MmrLoop(Append(selected, picked), RemoveAt(remaining, best.idx),
                     n, lambda)

\* a selection that drops the candidates without embedding before it looks
\* at the number of candidates
mmr_select_embedded_only(candidates, n, lambda) ==
    LET candidates_with_embeddings ==
            SelectPresent(candidates, "embedding", 1)
    IN  IF candidates = <<>> THEN <<>>
        ELSE IF n <= 0 THEN <<>>
        ELSE IF Len(candidates_with_embeddings) <= n
        THEN candidates_with_embeddings
        ELSE MmrLoop(<<Head(candidates_with_embeddings)>>,
                     Tail(candidates_with_embeddings), n, lambda)

mmr_select(candidates, n, lambda) ==
    LET candidates_with_embeddings ==
            SelectPresent(candidates, "embedding", 1)
    IN  IF candidates = <<>> THEN <<>>
        ELSE IF n <= 0 THEN <<>>
        ELSE IF Len(candidates) <= n THEN candidates
        ELSE IF candidates_with_embeddings = <<>> THEN Prefix(candidates, n)
        ELSE MmrLoop(<<Head(candidates_with_embeddings)>>,
                     Tail(candidates_with_embeddings), n, lambda)

\* ------------------------------------------------------------------------
\* verification/verifier.py
\* ------------------------------------------------------------------------

\* similarities are numerators over SimScale, confidences over ConfScale
SimScale == 10 * 100

ConfScale == 100 * SimScale

\* THRESHOLDS, over SimScale
THRESHOLDS ==
    [strongly_supported |-> 750, supported |-> 650,
     partially_supported |-> 500, weakly_supported |-> 400]

\* verify_claim with the test of the first threshold strict
verify_claim_strict(evidence_mapping, thresholds) ==
    LET similarity == evidence_mapping.best_match_similarity
        keywords_found == evidence_mapping.keywords_found
        verdict ==
            IF similarity > thresholds.supported
            THEN IF keywords_found
                 THEN [status |-> "SUPPORTED", confidence |-> similarity * 100,
                       reasoning |-> "high similarity, keywords found"]
                 ELSE [status |-> "PARTIALLY_SUPPORTED", confidence |-> similarity * 85,
                       reasoning |-> "high similarity, keywords not found"]
            ELSE IF similarity >= thresholds.partially_supported
            THEN IF keywords_found
                 THEN [status |-> "PARTIALLY_SUPPORTED", confidence |-> similarity * 100,
                       reasoning |-> "medium similarity, keywords found"]
                 ELSE [status |-> "UNRESOLVED", confidence |-> similarity * 70,
                       reasoning |-> "medium similarity, no keyword match"]
            ELSE [status |-> "UNRESOLVED", confidence |-> similarity * 100,
                  reasoning |-> "low similarity"]
    IN  [claim_id |-> evidence_mapping.claim_id,
         status |-> verdict.status,
         confidence |-> verdict.confidence,
         reasoning |-> verdict.reasoning,
         similarity_score |-> similarity,
         keywords_found |-> keywords_found]

verify_claim(evidence_mapping, thresholds) ==
    LET similarity == evidence_mapping.best_match_similarity
        keywords_found == evidence_mapping.keywords_found
        verdict ==
            IF similarity >= thresholds.supported
            THEN IF keywords_found
                 THEN [status |-> "SUPPORTED", confidence |-> similarity * 100,
                       reasoning |-> "high similarity, keywords found"]
                 ELSE [status |-> "PARTIALLY_SUPPORTED", confidence |-> similarity * 85,
                       reasoning |-> "high similarity, keywords not found"]
            ELSE IF similarity >= thresholds.partially_supported
            THEN IF keywords_found
                 THEN [status |-> "PARTIALLY_SUPPORTED", confidence |-> similarity * 100,
                       reasoning |-> "medium similarity, keywords found"]
                 ELSE [status |-> "UNRESOLVED", confidence |-> similarity * 70,
                       reasoning |-> "medium similarity, no keyword match"]
            ELSE IF similarity >= thresholds.weakly_supported
            THEN [status |-> "UNRESOLVED", confidence |-> similarity * 100,
                  reasoning |-> "low similarity"]
            ELSE [status |-> "UNRESOLVED", confidence |-> similarity * 100,
                  reasoning |-> "very low similarity"]
    IN  [claim_id |-> evidence_mapping.claim_id,
         status |-> verdict.status,
         confidence |-> verdict.confidence,
         reasoning |-> verdict.reasoning,
         similarity_score |-> similarity,
         keywords_found |-> keywords_found]

\* [c for c in verified_claims if c["status"] == status]
WithStatus(verified_claims, status) ==
    SelectEq(verified_claims, "status", status, 1)

\* support_ratio taken over the claims that are supported or partially
\* supported
SupportRatioLenient(verified_claims) ==
    IF verified_claims # <<>>
    THEN <<Len(WithStatus(verified_claims, "SUPPORTED"))
             + Len(WithStatus(verified_claims, "PARTIALLY_SUPPORTED")),
           Len(verified_claims)>>
    ELSE <<0, 1>>

\* support_ratio = len(supported) / len(verified_claims) if verified_claims
\* else 0, as <<numerator, denominator>>
SupportRatio(verified_claims) ==
    IF verified_claims # <<>>
    THEN <<Len(WithStatus(verified_claims, "SUPPORTED")), Len(verified_claims)>>
    ELSE <<0, 1>>

\* avg_supported_conf, as <<numerator, denominator>> over ConfScale
AvgSupportedConf(verified_claims) ==
    LET supported == WithStatus(verified_claims, "SUPPORTED")
    IN  IF supported # <<>>
        THEN <<SumSeq([j \in 1..Len(supported) |-> supported[j].confidence]),
               Len(supported)>>
        ELSE <<0, 1>>

verify_all_claims(mappings, thresholds) ==
    LET verified_claims ==
            [j \in 1..Len(mappings) |-> verify_claim(mappings[j], thresholds)]
        avg_supported_conf == AvgSupportedConf(verified_claims)
        support_ratio == SupportRatio(verified_claims)
    IN  [verified_claims |-> verified_claims,
         coVe_confidence |-> <<avg_supported_conf[1] * support_ratio[1],
                               avg_supported_conf[2] * support_ratio[2]>>,
         supported_count |-> Len(WithStatus(verified_claims, "SUPPORTED")),
         partially_supported_count |->
             Len(WithStatus(verified_claims, "PARTIALLY_SUPPORTED")),
         unresolved_count |-> Len(WithStatus(verified_claims, "UNRESOLVED")),
         contradicted_count |-> Len(WithStatus(verified_claims, "CONTRADICTED")),
         avg_supported_confidence |-> avg_supported_conf,
         support_ratio |-> support_ratio]

\* ------------------------------------------------------------------------
\* State
\* ------------------------------------------------------------------------

VARIABLES
    pc,                  \* position of the call in progress
    config,              \* RAG_CONFIG: each section is set when the call reads it
    expanded_queries,    \* the variants the search loop iterates over
    bm25_lists,          \* bm25_results of each finished loop iteration
    vector_lists,        \* vector_results of each finished loop iteration
    all_bm25_results,
    all_vector_results,
    all_searches_failed, \* no backend query of this call has succeeded yet
    fused_chunks,
    final_chunks,
    result,              \* <<>> until the call returns, then <<the dict>>
    evidence_mappings,   \* argument of verify_all_claims
    verification,        \* <<>>, then <<what verify_all_claims returned>>
    llm_response,        \* <<>>, then <<what the generation service answered>>
    cove_claims,         \* claims of verify_response (what extract_claims returned)
    claim_index,         \* position of the loop over the claims (from 1)
    remaining            \* remaining of mmr_select while its loop runs

vars == <<pc, config, expanded_queries, bm25_lists, vector_lists,
          all_bm25_results, all_vector_results, all_searches_failed,
          fused_chunks, final_chunks, result, evidence_mappings, verification,
          llm_response, cove_claims, claim_index, remaining>>

\* the variables of query expansion and of claim extraction and mapping
coveVars == <<llm_response, cove_claims, claim_index>>

\* the pass-through of a disabled selection stage keeps fused_chunks[:10]
PassThroughLimit == 10

\* RAG_CONFIG before any section of it has been read
UnreadConfig ==
    [bm25_enabled |-> FALSE, vector_enabled |-> FALSE, rrf_enabled |-> FALSE,
     mmr_enabled |-> FALSE, final_chunks |-> 0, k_parameter |-> 1,
     lambda_param |-> <<3, 4>>]

\* values of RRF_K and MMR_LAMBDA execute_rag_search runs with
PipelineKValues == {1}

PipelineLambdaValues == {<<3, 4>>}

\* ------------------------------------------------------------------------
\* The search backends
\* ------------------------------------------------------------------------

WebsiteIds == 1..NumIds

\* the internal corpus numbers its chunks from 1 as well
InternalIds == {1}

\* the embedding column of a stored chunk
StoredEmbedding(src, id) ==
    IF src = "internal" THEN <<-1, 0>>
    ELSE IF id % 3 = 1 THEN <<1, 0>>
    ELSE IF id % 3 = 2 THEN <<3, 4>>
    ELSE <<0, 1>>

\* The rankings one corpus query can return: at most limit rows, no chunk
\* twice, ORDER BY score DESC.  A ranking is a sequence of <<id, score>>.
Rankings(ids, limit) ==
    UNION {
        {r \in [1..m -> ids \X ScoreValues] :
            /\ \A a, b \in 1..m : a # b => r[a][1] # r[b][1]
            /\ \A a \in 1..(m - 1) : r[a][2] >= r[a + 1][2]}
        : m \in 0..limit}

\* rows of bm25_search (src = "website") or bm25_search_internal
Bm25Rows(ranking, src) ==
    [p \in 1..Len(ranking) |-> Bm25Hit(ranking[p][1], src, ranking[p][2])]

\* rows of vector_search / vector_search_internal with include_embeddings
VectorRows(ranking, src) ==
    [p \in 1..Len(ranking) |->
        VectorHit(ranking[p][1], src, ranking[p][2],
                  <<StoredEmbedding(src, ranking[p][1])>>)]

\* results["combined"] of bm25_search_unified / vector_search_unified
search_unified(website_results, internal_results, include_internal) ==
    website_results \o (IF include_internal THEN internal_results ELSE <<>>)

\* what one corpus query does: it raises (caught inside the search function,
\* which then returns []) or it returns a ranking
Outcomes(ids, limit) ==
    {[failed |-> TRUE, ranking |-> <<>>]}
    \cup {[failed |-> FALSE, ranking |-> r] : r \in Rankings(ids, limit)}

\* rows the backends may still return in this call
HitsLeft == MaxTotalHits - Len(all_bm25_results) - Len(all_vector_results)

\* ------------------------------------------------------------------------
\* core/rag_executor.py: execute_rag_search
\* ------------------------------------------------------------------------

\* the dict of the outer except branch, and of the missing query
ErrorResult(message) ==
    [success |-> FALSE, chunks |-> <<>>, retrieval_confidence |-> <<0, 1>>,
     num_results |-> 0, error |-> <<message>>,
     bm25_candidates |-> 0, vector_candidates |-> 0, rrf_fused_count |-> 0,
     mmr_final_count |-> 0, cove_enabled |-> FALSE, cove_error |-> FALSE]

\* sum(c.get("rrf_score", 0) for c in final_chunks) / len(final_chunks), as
\* <<numerator, denominator>> over Unit
RetrievalConfidence(chunks) ==
    IF chunks # <<>>
    THEN <<SumSeq([j \in 1..Len(chunks) |->
                      IF chunks[j].rrf_score # <<>> THEN chunks[j].rrf_score[1]
                      ELSE 0]),
           Len(chunks)>>
    ELSE <<0, 1>>

\* the result dict built after selection
SuccessResult(cove_enabled, cove_error) ==
    [success |-> TRUE, chunks |-> final_chunks,
     retrieval_confidence |-> RetrievalConfidence(final_chunks),
     num_results |-> Len(final_chunks), error |-> <<>>,
     bm25_candidates |-> Len(all_bm25_results),
     vector_candidates |-> Len(all_vector_results),
     rrf_fused_count |-> Len(fused_chunks),
     mmr_final_count |-> Len(final_chunks),
     cove_enabled |-> cove_enabled, cove_error |-> cove_error]

\* STEP 0: a missing query returns the error dict at once
ValidateInput ==
    /\ pc = "start"
    /\ \E has_query \in BOOLEAN :
          IF has_query
          THEN /\ pc' = "expand"
               /\ result' = result
          ELSE /\ pc' = "done"
               /\ result' = <<ErrorResult("No query provided in args")>>
    /\ UNCHANGED <<config, expanded_queries, bm25_lists, vector_lists,
                   all_bm25_results, all_vector_results, all_searches_failed,
                   fused_chunks, final_chunks, evidence_mappings, verification>>
    /\ UNCHANGED <<coveVars, remaining>>

\* PHASE 2: expand_query returns 1..MaxVariants variants, or its fallback
\* (the original query, flagged) when the generation call fails; with MQE
\* disabled the original query is used.  The prints that follow format the
\* weights the model returned and raise when one is not a number.  Then the
\* bm25 and vector sections of the configuration are read.
Expand ==
    /\ pc = "expand"
    /\ \/ /\ \E m \in 1..MaxVariants :
                expanded_queries' =
                    [q \in 1..m |-> [query |-> q, expansion_error |-> FALSE]]
          /\ pc' = "bm25"
          /\ \E b, v \in BOOLEAN :
                config' = [config EXCEPT !.bm25_enabled = b, !.vector_enabled = v]
       \/ /\ expanded_queries' = <<[query |-> 1, expansion_error |-> TRUE]>>
          /\ pc' = "bm25"
          /\ \E b, v \in BOOLEAN :
                config' = [config EXCEPT !.bm25_enabled = b, !.vector_enabled = v]
       \/ /\ expanded_queries' = expanded_queries
          /\ pc' = "except"
          /\ config' = config
    /\ UNCHANGED <<bm25_lists, vector_lists, all_bm25_results,
                   all_vector_results, all_searches_failed, fused_chunks,
                   final_chunks, result, evidence_mappings, verification>>
    /\ UNCHANGED <<coveVars, remaining>>

\* loop body, first half: bm25_search_unified for the next variant
SearchBM25 ==
    /\ pc = "bm25"
    /\ IF config.bm25_enabled
       THEN \E include_internal \in BOOLEAN :
            \E web \in Outcomes(WebsiteIds, Min(MaxHits, HitsLeft)) :
            \E int \in Outcomes(InternalIds,
                                Min(MaxHits, HitsLeft - Len(web.ranking))) :
               LET bm25_results ==
                       search_unified(Bm25Rows(web.ranking, "website"),
                                      Bm25Rows(int.ranking, "internal"),
                                      include_internal)
               IN  /\ all_bm25_results' = all_bm25_results \o bm25_results
                   /\ bm25_lists' = Append(bm25_lists, bm25_results)
                   /\ all_searches_failed' =
                          (/\ all_searches_failed
                           /\ web.failed
                           /\ include_internal => int.failed)
       ELSE /\ bm25_lists' = Append(bm25_lists, <<>>)
            /\ UNCHANGED <<all_bm25_results, all_searches_failed>>
    /\ pc' = "vector"
    /\ UNCHANGED <<config, expanded_queries, vector_lists, all_vector_results,
                   fused_chunks, final_chunks, result, evidence_mappings,
                   verification>>
    /\ UNCHANGED <<coveVars, remaining>>

\* a semantic search whose rows are put in front of the rows gathered so
\* far, as if the later query had answered first
SearchVectorByArrival ==
    /\ pc = "vector"
    /\ IF config.vector_enabled
       THEN \E include_internal \in BOOLEAN :
            \E web \in Outcomes(WebsiteIds, Min(MaxHits, HitsLeft)) :
            \E int \in Outcomes(InternalIds,
                                Min(MaxHits, HitsLeft - Len(web.ranking))) :
               LET vector_results ==
                       search_unified(VectorRows(web.ranking, "website"),
                                      VectorRows(int.ranking, "internal"),
                                      include_internal)
               IN  /\ all_vector_results' = vector_results \o all_vector_results
                   /\ vector_lists' = Append(vector_lists, vector_results)
                   /\ all_searches_failed' =
                          (/\ all_searches_failed
                           /\ web.failed
                           /\ include_internal => int.failed)
       ELSE /\ vector_lists' = Append(vector_lists, <<>>)
            /\ UNCHANGED <<all_vector_results, all_searches_failed>>
    /\ pc' = IF Len(bm25_lists) < Len(expanded_queries) THEN "bm25" ELSE "fuse"
    /\ UNCHANGED <<config, expanded_queries, bm25_lists, all_bm25_results,
                   fused_chunks, final_chunks, result, evidence_mappings,
                   verification>>
    /\ UNCHANGED <<coveVars, remaining>>

\* loop body, second half: vector_search_unified for the same variant, then
\* the next variant or the end of the loop
SearchVector ==
    /\ pc = "vector"
    /\ IF config.vector_enabled
       THEN \E include_internal \in BOOLEAN :
            \E web \in Outcomes(WebsiteIds, Min(MaxHits, HitsLeft)) :
            \E int \in Outcomes(InternalIds,
                                Min(MaxHits, HitsLeft - Len(web.ranking))) :
               LET vector_results ==
                       search_unified(VectorRows(web.ranking, "website"),
                                      VectorRows(int.ranking, "internal"),
                                      include_internal)
               IN  /\ all_vector_results' = all_vector_results \o vector_results
                   /\ vector_lists' = Append(vector_lists, vector_results)
                   /\ all_searches_failed' =
                          (/\ all_searches_failed
                           /\ web.failed
                           /\ include_internal => int.failed)
       ELSE /\ vector_lists' = Append(vector_lists, <<>>)
            /\ UNCHANGED <<all_vector_results, all_searches_failed>>
    /\ pc' = IF Len(bm25_lists) < Len(expanded_queries) THEN "bm25" ELSE "fuse"
    /\ UNCHANGED <<config, expanded_queries, bm25_lists, all_bm25_results,
                   fused_chunks, final_chunks, result, evidence_mappings,
                   verification>>
    /\ UNCHANGED <<coveVars, remaining>>

\* chunk["rrf_score"] = chunk.get(key, 0.0) for every chunk of the list
WithFakeRrf(chunks, key) ==
    [j \in 1..Len(chunks) |->
        [chunks[j] EXCEPT !.rrf_score =
            IF chunks[j][key] # <<>> THEN chunks[j][key] ELSE <<0>>]]

\* PHASE 3.3: the rrf section is read; then rrf_fusion, or the results of one
\* method with rrf_score set to the native score (written into the dicts of
\* the list itself)
Fuse ==
    /\ pc = "fuse"
    /\ \E enabled \in BOOLEAN : \E k \in PipelineKValues :
          config' = [config EXCEPT !.rrf_enabled = enabled, !.k_parameter = k]
    /\ IF config'.rrf_enabled /\ (all_bm25_results # <<>> \/ all_vector_results # <<>>)
       THEN /\ fused_chunks' = rrf_fusion(all_bm25_results, all_vector_results,
                                          config'.k_parameter)
            /\ UNCHANGED <<all_bm25_results, all_vector_results>>
       ELSE IF all_vector_results # <<>>
       THEN /\ fused_chunks' =
                   WithFakeRrf(all_vector_results, "vector_score")
            /\ all_vector_results' = fused_chunks'
            /\ UNCHANGED all_bm25_results
       ELSE IF all_bm25_results # <<>>
       THEN /\ fused_chunks' =
                   WithFakeRrf(all_bm25_results, "bm25_score")
            /\ all_bm25_results' = fused_chunks'
            /\ UNCHANGED all_vector_results
       ELSE /\ fused_chunks' = <<>>
            /\ UNCHANGED <<all_bm25_results, all_vector_results>>
    /\ pc' = "select"
    /\ UNCHANGED <<expanded_queries, bm25_lists, vector_lists,
                   all_searches_failed, final_chunks, result,
                   evidence_mappings, verification>>
    /\ UNCHANGED <<coveVars, remaining>>

\* PHASE 3.4: the mmr section is read; then mmr_select, or the first
\* PassThroughLimit fused chunks
Select ==
    /\ pc = "select"
    /\ \E enabled \in BOOLEAN : \E n \in 0..MaxN :
       \E lambda \in PipelineLambdaValues :
          config' = [config EXCEPT !.mmr_enabled = enabled, !.final_chunks = n,
                                   !.lambda_param = lambda]
    /\ final_chunks' =
          IF config'.mmr_enabled /\ fused_chunks # <<>>
          THEN mmr_select(fused_chunks, config'.final_chunks, config'.lambda_param)
          ELSE Prefix(fused_chunks, PassThroughLimit)
    /\ pc' = "respond"
    /\ UNCHANGED <<expanded_queries, bm25_lists, vector_lists,
                   all_bm25_results, all_vector_results, all_searches_failed,
                   fused_chunks, result, evidence_mappings, verification>>
    /\ UNCHANGED <<coveVars, remaining>>

\* The result dict and PHASE 4.  With COVE_ENABLED and chunks present,
\* verify_rag_response either returns or raises (its generation and embedding
\* calls are not guarded); the inner except returns the result without it.
Respond ==
    /\ pc = "respond"
    /\ \E cove_enabled \in BOOLEAN :
          IF cove_enabled /\ final_chunks # <<>>
          THEN \E raised \in BOOLEAN :
                  result' = <<SuccessResult(~raised, raised)>>
          ELSE result' = <<SuccessResult(FALSE, FALSE)>>
    /\ pc' = "done"
    /\ UNCHANGED <<config, expanded_queries, bm25_lists, vector_lists,
                   all_bm25_results, all_vector_results, all_searches_failed,
                   fused_chunks, final_chunks, evidence_mappings, verification>>
    /\ UNCHANGED <<coveVars, remaining>>

\* an except branch that lets the exception leave the call
ExceptPropagates ==
    /\ pc = "except"
    /\ pc' = "raised"
    /\ UNCHANGED <<config, expanded_queries, bm25_lists, vector_lists,
                   all_bm25_results, all_vector_results, all_searches_failed,
                   fused_chunks, final_chunks, result, evidence_mappings,
                   verification>>
    /\ UNCHANGED <<coveVars, remaining>>

\* except Exception as e: return the error dict
Except ==
    /\ pc = "except"
    /\ result' = <<ErrorResult("exception")>>
    /\ pc' = "done"
    /\ UNCHANGED <<config, expanded_queries, bm25_lists, vector_lists,
                   all_bm25_results, all_vector_results, all_searches_failed,
                   fused_chunks, final_chunks, evidence_mappings, verification>>
    /\ UNCHANGED <<coveVars, remaining>>

Init ==
    /\ pc = "start"
    /\ config = UnreadConfig
    /\ expanded_queries = <<>>
    /\ bm25_lists = <<>>
    /\ vector_lists = <<>>
    /\ all_bm25_results = <<>>
    /\ all_vector_results = <<>>
    /\ all_searches_failed = TRUE
    /\ fused_chunks = <<>>
    /\ final_chunks = <<>>
    /\ result = <<>>
    /\ evidence_mappings = <<>>
    /\ verification = <<>>
    /\ llm_response = <<>>
    /\ cove_claims = <<>>
    /\ claim_index = 1
    /\ remaining = <<>>

Next ==
    \/ ValidateInput
    \/ Expand
    \/ SearchBM25
    \/ SearchVector
    \/ Fuse
    \/ Select
    \/ Respond
    \/ Except

Spec == Init /\ [][Next]_vars

\* ------------------------------------------------------------------------
\* Properties of execute_rag_search
\* ------------------------------------------------------------------------

\* the call has fused with rrf_fusion
FusedByRrf ==
    /\ pc \in {"select", "respond", "done"}
    /\ config.rrf_enabled
    /\ fused_chunks # <<>>

\* every row the backends returned in this call is a row of the website corpus
OnlyWebsiteRows ==
    /\ \A p \in 1..Len(all_bm25_results) :
          all_bm25_results[p].source_type = "website"
    /\ \A p \in 1..Len(all_vector_results) :
          all_vector_results[p].source_type = "website"

\* sum of 1/(k + p) over the positions p of one result list that hold the id
OwnListTerms(list, id, k) ==
    SumSeq([p \in 1..Len(list) |->
               IF list[p].chunk_id = id THEN RRFTerm(k, p) ELSE 0])

\* sum of OwnListTerms over the lists of every variant and both methods
OwnListScore(id, k) ==
    SumSeq([v \in 1..Len(bm25_lists) |-> OwnListTerms(bm25_lists[v], id, k)])
    + SumSeq([v \in 1..Len(vector_lists) |-> OwnListTerms(vector_lists[v], id, k)])

\* C1: after fusion, the fused score of every candidate is the sum, over the
\* result list of every variant and method that contains it, of 1/(k + rank)
\* with rank the position within that list.  (Stated for runs in which only
\* the website corpus returned rows, so that a variant's list for a method is
\* the list of one corpus.)
C1_ScoreSumsRanksOfOwnLists ==
    (FusedByRrf /\ OnlyWebsiteRows) =>
        \A j \in 1..Len(fused_chunks) :
            fused_chunks[j].rrf_score =
                <<OwnListScore(fused_chunks[j].chunk_id, config.k_parameter)>>

\* fused score of an id in a fused list, 0 when the id is not in it
ScoreOf(fused, id) ==
    LET j == IndexOfId(fused, id)
    IN  IF j = 0 THEN 0 ELSE fused[j].rrf_score[1]

\* the fused list of the call had the variants' lists arrived in the order pi
FusedInOrder(pi) ==
    rrf_fusion(Flatten([v \in 1..Len(bm25_lists) |-> bm25_lists[pi[v]]]),
               Flatten([v \in 1..Len(vector_lists) |-> vector_lists[pi[v]]]),
               config.k_parameter)

\* C4: permuting the order in which the variants' result lists are supplied
\* leaves the fused score of every candidate unchanged.
C4_ScoresInvariantUnderVariantOrder ==
    FusedByRrf =>
        \A pi \in Permutations(1..Len(bm25_lists)) :
            \A j \in 1..Len(fused_chunks) :
                ScoreOf(FusedInOrder(pi), fused_chunks[j].chunk_id)
                    = fused_chunks[j].rrf_score[1]

\* selection has run in this call
Selected == pc = "respond" \/ (pc = "done" /\ result[1].success)

\* C5: the selected passages never hold the same chunk (same corpus, same id)
\* twice, whatever reached selection, fusion enabled or not.
C5_SelectedIdsDistinct ==
    Selected =>
        \A a, b \in 1..Len(final_chunks) :
            a # b => \/ final_chunks[a].chunk_id # final_chunks[b].chunk_id
                     \/ final_chunks[a].source_type # final_chunks[b].source_type

\* C6: the selected list is no longer than min(n, number of candidates handed
\* to selection), n being the configured size (so it is empty when n <= 0),
\* through mmr_select and through the pass-through of a disabled selection.
C6_SelectedLengthAtMostN ==
    Selected =>
        Len(final_chunks) <= Min(config.final_chunks, Len(fused_chunks))

\* the largest cosine similarity of an embedding to the candidates at the
\* positions chosen (a non-empty set)
RefMaxCosine(emb, cands, chosen) ==
    LET sims == {cosine_similarity(emb, cands[c].embedding[1]) : c \in chosen}
    IN  CHOOSE m \in sims : \A x \in sims : x <= m

\* lambda * relevance - (1 - lambda) * maximum cosine to the chosen ones
RefMmr(cands, c, chosen, lambda) ==
    MmrScore(lambda, Relevance(cands[c]),
             RefMaxCosine(cands[c].embedding[1], cands, chosen))

\* out is a greedy MMR sequence of length n over cands: picks at distinct
\* positions, the first of the highest relevance, every later one with the
\* highest MMR value among those not picked before it
IsGreedyMmr(out, cands, n, lambda) ==
    /\ Len(out) = n
    /\ \E idx \in [1..n -> 1..Len(cands)] :
          /\ \A a, b \in 1..n : a # b => idx[a] # idx[b]
          /\ \A i \in 1..n :
                [out[i] EXCEPT !.mmr_score = <<>>]
                    = [cands[idx[i]] EXCEPT !.mmr_score = <<>>]
          /\ \A c \in 1..Len(cands) :
                Relevance(cands[idx[1]]) >= Relevance(cands[c])
          /\ \A i \in 2..n :
                LET chosen == {idx[h] : h \in 1..(i - 1)}
                IN  \A c \in (1..Len(cands)) \ chosen :
                       RefMmr(cands, idx[i], chosen, lambda)
                           >= RefMmr(cands, c, chosen, lambda)

\* C7: when mmr_select is handed more than n >= 1 candidates that all have an
\* embedding, its output is the greedy MMR sequence: first the candidate of
\* the highest fused score, then each time the remaining candidate with the
\* highest lambda * relevance - (1 - lambda) * max cosine to the selected.
C7_SelectionIsGreedyMmr ==
    (/\ pc = "respond"
     /\ config.mmr_enabled
     /\ config.final_chunks >= 1
     /\ Len(fused_chunks) > config.final_chunks
     /\ \A j \in 1..Len(fused_chunks) : fused_chunks[j].embedding # <<>>)
    => IsGreedyMmr(final_chunks, fused_chunks, config.final_chunks,
                   config.lambda_param)

\* C10: execute_rag_search ends by returning a result record, whatever the
\* input and whichever of its external calls fail: no exception leaves the
\* call, a finished call has a result, and an unfinished call can go on.
C10_AlwaysReturnsResult ==
    /\ pc # "raised"
    /\ (pc = "done") <=> (result # <<>>)
    /\ result # <<>> => result[1].success \in BOOLEAN
    /\ pc # "done" => ENABLED Next

\* the outer except branch has turned an exception into the error record
C10_Witness ==
    /\ pc = "done"
    /\ result # <<>>
    /\ ~result[1].success
    /\ result[1].error = <<"exception">>


\* ------------------------------------------------------------------------
\* rrf_fusion called on its own
\* ------------------------------------------------------------------------

\* the chunks of the two corpora, as <<source_type, chunk_id>>
StoredChunks ==
    ({"website"} \X WebsiteIds) \cup ({"internal"} \X InternalIds)

\* native score of the row at position p of a result list
ScoreAt(p) == Unit \div (p + 1)

\* result lists of up to MaxFuseLen rows; the same chunk may be in a list
\* more than once (several variants, concatenated)
ChunkLists == UNION {[1..m -> StoredChunks] : m \in 0..MaxFuseLen}

Bm25List(cs) ==
    [p \in 1..Len(cs) |-> Bm25Hit(cs[p][2], cs[p][1], ScoreAt(p))]

VectorList(cs) ==
    [p \in 1..Len(cs) |->
        VectorHit(cs[p][2], cs[p][1], ScoreAt(p + 1),
                  <<StoredEmbedding(cs[p][1], cs[p][2])>>)]

InitFuse ==
    /\ pc = "rrf_call"
    /\ \E k \in KValues : config = [UnreadConfig EXCEPT !.k_parameter = k]
    /\ \E cs \in ChunkLists : all_bm25_results = Bm25List(cs)
    /\ \E cs \in ChunkLists : all_vector_results = VectorList(cs)
    /\ expanded_queries = <<>>
    /\ bm25_lists = <<>>
    /\ vector_lists = <<>>
    /\ all_searches_failed = FALSE
    /\ fused_chunks = <<>>
    /\ final_chunks = <<>>
    /\ result = <<>>
    /\ evidence_mappings = <<>>
    /\ verification = <<>>
    /\ llm_response = <<>>
    /\ cove_claims = <<>>
    /\ claim_index = 1
    /\ remaining = <<>>

FuseCall ==
    /\ pc = "rrf_call"
    /\ fused_chunks' = rrf_fusion(all_bm25_results, all_vector_results,
                                  config.k_parameter)
    /\ pc' = "rrf_return"
    /\ UNCHANGED <<config, expanded_queries, bm25_lists, vector_lists,
                   all_bm25_results, all_vector_results, all_searches_failed,
                   final_chunks, result, evidence_mappings, verification>>
    /\ UNCHANGED <<coveVars, remaining>>

NextFuse == FuseCall

SpecFuse == InitFuse /\ [][NextFuse]_vars

\* ------------------------------------------------------------------------
\* Properties of rrf_fusion
\* ------------------------------------------------------------------------

\* ids of the rows of a list
IdsOf(list) == {list[p].chunk_id : p \in 1..Len(list)}

\* position of the first row with this id in the inputs, the lexical list
\* taken before the semantic one
FirstAppearance(id) == IndexOfId(all_bm25_results \o all_vector_results, id)

\* C2: the output of rrf_fusion holds every id at most once; an id that is in
\* the lexical and in the semantic input list is one entry that carries a
\* bm25_score and a vector_score of its rows, lists both methods in
\* found_in_methods and has in_both_methods set.
C2_MergedNotDuplicated ==
    pc = "rrf_return" =>
        /\ \A a, b \in 1..Len(fused_chunks) :
              a # b => fused_chunks[a].chunk_id # fused_chunks[b].chunk_id
        /\ \A id \in IdsOf(all_bm25_results) \cap IdsOf(all_vector_results) :
              \E j \in 1..Len(fused_chunks) :
                 /\ fused_chunks[j].chunk_id = id
                 /\ \E p \in 1..Len(all_bm25_results) :
                       /\ all_bm25_results[p].chunk_id = id
                       /\ fused_chunks[j].bm25_score = all_bm25_results[p].bm25_score
                 /\ \E p \in 1..Len(all_vector_results) :
                       /\ all_vector_results[p].chunk_id = id
                       /\ fused_chunks[j].vector_score
                              = all_vector_results[p].vector_score
                 /\ fused_chunks[j].found_in_methods = <<"bm25", "vector">>
                 /\ fused_chunks[j].in_both_methods

\* rrf_fusion has merged the rows of a chunk found by both methods into one
\* entry
C2_Witness ==
    /\ pc = "rrf_return"
    /\ IdsOf(all_bm25_results) \cap IdsOf(all_vector_results) # {}
    /\ Len(fused_chunks) < Len(all_bm25_results) + Len(all_vector_results)
    /\ \E j \in 1..Len(fused_chunks) : fused_chunks[j].in_both_methods

\* C3: the output of rrf_fusion is in non-increasing order of fused score;
\* entries of equal score are in the order of their first appearance in the
\* inputs, and then in the order of their ids.
C3_SortedWithStableTies ==
    pc = "rrf_return" =>
        \A a, b \in 1..Len(fused_chunks) :
            a < b =>
                LET x == fused_chunks[a]
                    y == fused_chunks[b]
                IN  \/ RrfKey(x) > RrfKey(y)
                    \/ /\ RrfKey(x) = RrfKey(y)
                       /\ FirstAppearance(x.chunk_id) < FirstAppearance(y.chunk_id)
                    \/ /\ RrfKey(x) = RrfKey(y)
                       /\ FirstAppearance(x.chunk_id) = FirstAppearance(y.chunk_id)
                       /\ x.chunk_id < y.chunk_id

\* two entries of equal fused score are in the output, the one that appeared
\* first ahead of the other although its id is the larger one
C3_Witness ==
    /\ pc = "rrf_return"
    /\ \E a, b \in 1..Len(fused_chunks) :
          /\ a < b
          /\ RrfKey(fused_chunks[a]) = RrfKey(fused_chunks[b])
          /\ fused_chunks[a].chunk_id > fused_chunks[b].chunk_id


\* ------------------------------------------------------------------------
\* mmr_select called on its own
\* ------------------------------------------------------------------------

\* embedding fields of a candidate: none, or one of three stored vectors
CandEmbeddings == {<<>>, <<<<1, 0>>>>, <<<<3, 4>>>>, <<<<-1, 0>>>>}

\* a candidate with an rrf_score (a fused chunk) or without one (a search
\* row that was never fused)
Candidate(id, fused, score, emb) ==
    [VectorHit(id, "website", IF fused THEN Unit - score ELSE score, emb)
        EXCEPT !.rrf_score = IF fused THEN <<score>> ELSE <<>>]

\* what tells two candidates apart besides their position
CandKinds == {TRUE} \X ScoreValues \X CandEmbeddings
             \cup {FALSE} \X {Unit \div 2} \X CandEmbeddings

CandLists == UNION {[1..m -> CandKinds] : m \in 0..MaxCands}

InitMMR ==
    /\ pc = "mmr_call"
    /\ \E n \in 0..MaxN : \E lambda \in LambdaValues :
          config = [UnreadConfig EXCEPT !.final_chunks = n,
                                        !.lambda_param = lambda]
    /\ \E ks \in CandLists :
          fused_chunks =
              [p \in 1..Len(ks) |-> Candidate(p, ks[p][1], ks[p][2], ks[p][3])]
    /\ expanded_queries = <<>>
    /\ bm25_lists = <<>>
    /\ vector_lists = <<>>
    /\ all_bm25_results = <<>>
    /\ all_vector_results = <<>>
    /\ all_searches_failed = FALSE
    /\ final_chunks = <<>>
    /\ result = <<>>
    /\ evidence_mappings = <<>>
    /\ verification = <<>>
    /\ llm_response = <<>>
    /\ cove_claims = <<>>
    /\ claim_index = 1
    /\ remaining = <<>>

MmrCall ==
    /\ pc = "mmr_call"
    /\ final_chunks' = mmr_select(fused_chunks, config.final_chunks,
                                  config.lambda_param)
    /\ pc' = "mmr_return"
    /\ UNCHANGED <<config, expanded_queries, bm25_lists, vector_lists,
                   all_bm25_results, all_vector_results, all_searches_failed,
                   fused_chunks, result, evidence_mappings, verification>>
    /\ UNCHANGED <<coveVars, remaining>>

NextMMR == MmrCall

SpecMMR == InitMMR /\ [][NextMMR]_vars

\* ------------------------------------------------------------------------
\* verify_all_claims called on its own
\* ------------------------------------------------------------------------

\* similarities of an evidence mapping, over SimScale: the thresholds, their
\* neighbours and the ends of the range
SimValues == {0, 399, 400, 499, 500, 649, 650, 1000}

MappingLists ==
    UNION {[1..m -> SimValues \X BOOLEAN] : m \in 0..MaxClaims}

InitVerify ==
    /\ pc = "verify_call"
    /\ \E ms \in MappingLists :
          evidence_mappings =
              [j \in 1..Len(ms) |->
                  [claim_id |-> j, best_match_similarity |-> ms[j][1],
                   keywords_found |-> ms[j][2]]]
    /\ config = UnreadConfig
    /\ expanded_queries = <<>>
    /\ bm25_lists = <<>>
    /\ vector_lists = <<>>
    /\ all_bm25_results = <<>>
    /\ all_vector_results = <<>>
    /\ all_searches_failed = FALSE
    /\ fused_chunks = <<>>
    /\ final_chunks = <<>>
    /\ result = <<>>
    /\ verification = <<>>
    /\ llm_response = <<>>
    /\ cove_claims = <<>>
    /\ claim_index = 1
    /\ remaining = <<>>

VerifyCall ==
    /\ pc = "verify_call"
    /\ verification' = <<verify_all_claims(evidence_mappings, THRESHOLDS)>>
    /\ pc' = "verify_return"
    /\ UNCHANGED <<config, expanded_queries, bm25_lists, vector_lists,
                   all_bm25_results, all_vector_results, all_searches_failed,
                   fused_chunks, final_chunks, result, evidence_mappings>>
    /\ UNCHANGED <<coveVars, remaining>>

NextVerify == VerifyCall

SpecVerify == InitVerify /\ [][NextVerify]_vars

\* ------------------------------------------------------------------------
\* Properties of verify_claim and verify_all_claims
\* ------------------------------------------------------------------------

\* the row of the classification table for a similarity (over SimScale) and a
\* keyword overlap, with the default thresholds; confidence over ConfScale
TableRow(similarity, keywordOverlap) ==
    IF similarity >= 650 /\ keywordOverlap
    THEN [status |-> "SUPPORTED", confidence |-> 100 * similarity]
    ELSE IF similarity >= 650
    THEN [status |-> "PARTIALLY_SUPPORTED", confidence |-> 85 * similarity]
    ELSE IF similarity >= 500 /\ keywordOverlap
    THEN [status |-> "PARTIALLY_SUPPORTED", confidence |-> 100 * similarity]
    ELSE IF similarity >= 500
    THEN [status |-> "UNRESOLVED", confidence |-> 70 * similarity]
    ELSE [status |-> "UNRESOLVED", confidence |-> 100 * similarity]

PositionsWith(verified_claims, status) ==
    {j \in 1..Len(verified_claims) : verified_claims[j].status = status}

\* sum of the confidences of the verified claims at the positions of S
RECURSIVE ConfidenceSum(_, _)
ConfidenceSum(verified_claims, S) ==
    IF S = {} THEN 0
    ELSE LET j == CHOOSE x \in S : TRUE
         IN  verified_claims[j].confidence
                 + ConfidenceSum(verified_claims, S \ {j})

\* C9: for a non-empty list of claims, the overall confidence verify_all_claims
\* returns is the mean confidence of the SUPPORTED claims (0 when there is
\* none) times the share of SUPPORTED claims among all claims, and each
\* per-status count is the number of claims with that status.
C9_ConfidenceAndCounts ==
    (pc = "verify_return" /\ evidence_mappings # <<>>) =>
        LET v == verification[1]
            claims == v.verified_claims
            S == PositionsWith(claims, "SUPPORTED")
            total == Len(claims)
            sum == ConfidenceSum(claims, S)
        IN  /\ total = Len(evidence_mappings)
            /\ v.supported_count = Cardinality(S)
            /\ v.partially_supported_count
                   = Cardinality(PositionsWith(claims, "PARTIALLY_SUPPORTED"))
            /\ v.unresolved_count
                   = Cardinality(PositionsWith(claims, "UNRESOLVED"))
            /\ v.contradicted_count
                   = Cardinality(PositionsWith(claims, "CONTRADICTED"))
            /\ v.coVe_confidence[2] > 0
            /\ IF S = {}
               THEN v.coVe_confidence[1] = 0
               ELSE v.coVe_confidence[1] * (Cardinality(S) * total)
                        = v.coVe_confidence[2] * (sum * Cardinality(S))

\* some claims of the list are SUPPORTED and some are not
C9_Witness ==
    /\ pc = "verify_return"
    /\ verification[1].supported_count >= 1
    /\ verification[1].partially_supported_count >= 1
    /\ verification[1].coVe_confidence[1] > 0

\* ------------------------------------------------------------------------
\* Failure of both search methods
\* ------------------------------------------------------------------------

\* the call has ended, both methods were enabled and every backend query of
\* every variant failed
BothMethodsFailed ==
    /\ pc = "done"
    /\ expanded_queries # <<>>
    /\ config.bm25_enabled
    /\ config.vector_enabled
    /\ all_searches_failed

\* C11: when both search methods fail for every variant, the result of
\* execute_rag_search is not the success record with no error that a
\* retrieval which succeeded returns: the failure is signalled in it.
C11_NoCandidatesSignalled ==
    BothMethodsFailed => ~(result[1].success /\ result[1].error = <<>>)

\* ------------------------------------------------------------------------
\* verification/claim_extractor.py
\* ------------------------------------------------------------------------

\* response_text: the whole answer
DraftText == "the whole answer"

\* the items a JSON array of the extraction model can hold: something that is
\* no dict with a "claim" key, or such a dict, its claim text empty or not,
\* its category given or not (claim_id is never given)
ExtractItems ==
    {[is_claim |-> FALSE, claim |-> "", category |-> <<>>]}
    \cup {[is_claim |-> TRUE, claim |-> t, category |-> c] :
             t \in {"", "a fact"}, c \in {<<>>, <<"pricing">>}}

\* what the extraction call does: it raises, or answers text that is no JSON,
\* JSON that is no list, or a JSON list of at most MaxClaims items
ExtractOutputs ==
    {[kind |-> k, items |-> <<>>] : k \in {"error", "not_json", "not_list"}}
    \cup {[kind |-> "list", items |-> its] :
             its \in UNION {[1..m -> ExtractItems] : m \in 0..MaxClaims}}

\* the validated claim of the i-th item of the list
ClaimOfItem(item, i) ==
    [claim |-> item.claim,
     claim_id |-> i,
     category |-> IF item.category = <<>> THEN "general" ELSE item.category[1],
     extraction_error |-> FALSE]

\* the list of both except branches
ExtractionFallback(response_text) ==
    <<[claim |-> response_text, claim_id |-> 1, category |-> "general",
       extraction_error |-> TRUE]>>

extract_claims(response_text, out) ==
    IF out.kind = "list"
    THEN LET marked == [i \in 1..Len(out.items) |->
                           [keep |-> out.items[i].is_claim,
                            c |-> ClaimOfItem(out.items[i], i)]]
             kept == SelectEq(marked, "keep", TRUE, 1)
         IN  [j \in 1..Len(kept) |-> kept[j].c]
    ELSE IF out.kind = "not_list" THEN <<>>
    ELSE ExtractionFallback(response_text)

\* ------------------------------------------------------------------------
\* verification/evidence_mapper.py
\* ------------------------------------------------------------------------

\* cosine_similarity of evidence_mapper.py: clamped to [0, 1], over SimScale
evidence_cosine_similarity(vec1, vec2) ==
    Max(0, Min(SimScale, cosine_similarity(vec1, vec2) * (SimScale \div SimDen)))

\* the loop over the chunks from position i on: best is the best match so far
RECURSIVE BestMatch(_, _, _, _)
BestMatch(claim_embedding, chunks, i, best) ==
    IF i > Len(chunks) THEN best
    ELSE IF chunks[i].embedding = <<>>
    THEN BestMatch(claim_embedding, chunks, i + 1, best)
    ELSE LET similarity ==
                 evidence_cosine_similarity(claim_embedding, chunks[i].embedding[1])
         IN  IF similarity > best.similarity
             THEN BestMatch(claim_embedding, chunks, i + 1,
                            [similarity |-> similarity, index |-> i])
             ELSE BestMatch(claim_embedding, chunks, i + 1, best)

\* map_claim_to_evidence once the claim is embedded; keywords is whether a
\* keyword of the claim occurs in the content of the best chunk
map_claim_to_evidence(claim, chunks, claim_embedding, keywords) ==
    LET best == BestMatch(claim_embedding, chunks, 1,
                          [similarity |-> 0, index |-> 0])
    IN  [claim |-> claim,
         best_match_chunk_index |-> best.index,
         best_match_similarity |-> best.similarity,
         keywords_found |-> (best.index # 0 /\ keywords)]

\* embeddings the embedding service gives a claim
ClaimEmbeddings == {<<1, 0>>, <<3, 4>>, <<0, 1>>}

\* "Add embeddings to chunks that don't have them": the embeddings are read
\* from the table of the website chunks by chunk id
WithFetchedEmbeddings(chunks) ==
    [j \in 1..Len(chunks) |->
        IF chunks[j].embedding = <<>> /\ chunks[j].chunk_id \in WebsiteIds
        THEN [chunks[j] EXCEPT
                 !.embedding = <<StoredEmbedding("website", chunks[j].chunk_id)>>]
        ELSE chunks[j]]

\* ------------------------------------------------------------------------
\* verification/cove.py: verify_rag_response, called by PHASE 4 of
\* execute_rag_search
\* ------------------------------------------------------------------------

\* what verify_response returns when no claim was extracted
NoClaimsResult ==
    [verified_claims |-> <<>>, coVe_confidence |-> <<ConfScale, 1>>,
     supported_count |-> 0, partially_supported_count |-> 0,
     unresolved_count |-> 0, contradicted_count |-> 0,
     claims_extracted |-> 0, avg_supported_confidence |-> <<0, 1>>]

\* what verify_response returns after verify_all_claims
VerifiedResult(v, extracted) ==
    [verified_claims |-> v.verified_claims,
     coVe_confidence |-> v.coVe_confidence,
     supported_count |-> v.supported_count,
     partially_supported_count |-> v.partially_supported_count,
     unresolved_count |-> v.unresolved_count,
     contradicted_count |-> v.contradicted_count,
     claims_extracted |-> Len(extracted),
     avg_supported_confidence |-> v.avg_supported_confidence,
     support_ratio |-> v.support_ratio]

\* selected chunks PHASE 4 is entered with: rows of the vector search carry
\* their embedding, rows of the BM25 search do not
CoveChunkLists ==
    {<<VectorHit(1, "website", Unit \div 2, <<StoredEmbedding("website", 1)>>)>>,
     <<Bm25Hit(2, "website", Unit \div 2)>>,
     <<Bm25Hit(1, "internal", Unit \div 2)>>,
     <<VectorHit(1, "website", Unit \div 2, <<StoredEmbedding("website", 1)>>),
       Bm25Hit(2, "website", Unit \div 4)>>}

InitCove ==
    /\ pc = "draft"
    /\ final_chunks \in CoveChunkLists
    /\ config = UnreadConfig
    /\ expanded_queries = <<>>
    /\ bm25_lists = <<>>
    /\ vector_lists = <<>>
    /\ all_bm25_results = <<>>
    /\ all_vector_results = <<>>
    /\ all_searches_failed = FALSE
    /\ fused_chunks = <<>>
    /\ result = <<>>
    /\ evidence_mappings = <<>>
    /\ verification = <<>>
    /\ llm_response = <<>>
    /\ cove_claims = <<>>
    /\ claim_index = 0
    /\ remaining = <<>>

\* generate_draft_response: the generation call returns the draft or raises
GenerateDraft ==
    /\ pc = "draft"
    /\ \E raised \in BOOLEAN : pc' = IF raised THEN "cove_except" ELSE "extract"
    /\ UNCHANGED <<config, expanded_queries, bm25_lists, vector_lists,
                   all_bm25_results, all_vector_results, all_searches_failed,
                   fused_chunks, final_chunks, result, evidence_mappings,
                   verification, llm_response, cove_claims, claim_index>>
    /\ UNCHANGED remaining

\* Step 1 of verify_response: extract_claims, and the early return when it
\* gives no claim
ExtractClaims ==
    /\ pc = "extract"
    /\ \E out \in ExtractOutputs :
          /\ llm_response' = <<out>>
          /\ cove_claims' = extract_claims(DraftText, out)
    /\ IF cove_claims' = <<>>
       THEN /\ verification' = <<NoClaimsResult>>
            /\ pc' = "cove_return"
       ELSE /\ verification' = verification
            /\ pc' = "fetch"
    /\ UNCHANGED <<config, expanded_queries, bm25_lists, vector_lists,
                   all_bm25_results, all_vector_results, all_searches_failed,
                   fused_chunks, final_chunks, result, evidence_mappings,
                   claim_index>>
    /\ UNCHANGED remaining

\* map_all_claims_to_evidence up to its loop: the embeddings of the chunks
\* are read from the database (which may raise) and added where missing
FetchEmbeddings ==
    /\ pc = "fetch"
    /\ \E raised \in BOOLEAN :
          IF raised
          THEN /\ pc' = "cove_except"
               /\ UNCHANGED <<final_chunks, claim_index>>
          ELSE /\ pc' = "map"
               /\ final_chunks' = WithFetchedEmbeddings(final_chunks)
               /\ claim_index' = 1
    /\ UNCHANGED <<config, expanded_queries, bm25_lists, vector_lists,
                   all_bm25_results, all_vector_results, all_searches_failed,
                   fused_chunks, result, evidence_mappings, verification,
                   llm_response, cove_claims>>
    /\ UNCHANGED remaining

\* one iteration of the loop of map_all_claims_to_evidence: a claim without
\* text is skipped; otherwise map_claim_to_evidence embeds the claim, and the
\* embedding call either raises (nothing catches it before execute_rag_search)
\* or returns
MapClaim ==
    /\ pc = "map"
    /\ claim_index <= Len(cove_claims)
    /\ LET claim_obj == cove_claims[claim_index]
       IN  IF claim_obj.claim = ""
           THEN /\ claim_index' = claim_index + 1
                /\ UNCHANGED <<pc, evidence_mappings>>
           ELSE \/ /\ pc' = "cove_except"
                   /\ UNCHANGED <<claim_index, evidence_mappings>>
                \/ \E claim_embedding \in ClaimEmbeddings : \E keywords \in BOOLEAN :
                      LET mapping == map_claim_to_evidence(claim_obj.claim,
                                         final_chunks, claim_embedding, keywords)
                      IN  /\ evidence_mappings' =
                                 Append(evidence_mappings,
                                        [claim_id |-> claim_obj.claim_id,
                                         category |-> claim_obj.category,
                                         best_match_similarity |->
                                             mapping.best_match_similarity,
                                         keywords_found |-> mapping.keywords_found])
                          /\ claim_index' = claim_index + 1
                          /\ pc' = pc
    /\ UNCHANGED <<config, expanded_queries, bm25_lists, vector_lists,
                   all_bm25_results, all_vector_results, all_searches_failed,
                   fused_chunks, final_chunks, result, verification,
                   llm_response, cove_claims>>
    /\ UNCHANGED remaining

\* Steps 3 and 4 of verify_response, after the loop
VerifyMapped ==
    /\ pc = "map"
    /\ claim_index > Len(cove_claims)
    /\ verification' =
          <<VerifiedResult(verify_all_claims(evidence_mappings, THRESHOLDS),
                           cove_claims)>>
    /\ pc' = "cove_return"
    /\ UNCHANGED <<config, expanded_queries, bm25_lists, vector_lists,
                   all_bm25_results, all_vector_results, all_searches_failed,
                   fused_chunks, final_chunks, result, evidence_mappings,
                   llm_response, cove_claims, claim_index>>
    /\ UNCHANGED remaining

\* execute_rag_search after verify_rag_response returned: the result with
\* the verification
CoveReturn ==
    /\ pc = "cove_return"
    /\ result' = <<SuccessResult(TRUE, FALSE)>>
    /\ pc' = "cove_done"
    /\ UNCHANGED <<config, expanded_queries, bm25_lists, vector_lists,
                   all_bm25_results, all_vector_results, all_searches_failed,
                   fused_chunks, final_chunks, evidence_mappings,
                   verification, llm_response, cove_claims, claim_index>>
    /\ UNCHANGED remaining

\* except Exception as cove_error: the result without the verification
CoveExcept ==
    /\ pc = "cove_except"
    /\ result' = <<SuccessResult(FALSE, TRUE)>>
    /\ verification' = <<>>
    /\ pc' = "cove_done"
    /\ UNCHANGED <<config, expanded_queries, bm25_lists, vector_lists,
                   all_bm25_results, all_vector_results, all_searches_failed,
                   fused_chunks, final_chunks, evidence_mappings,
                   llm_response, cove_claims, claim_index>>
    /\ UNCHANGED remaining

NextCove ==
    \/ GenerateDraft
    \/ ExtractClaims
    \/ FetchEmbeddings
    \/ MapClaim
    \/ VerifyMapped
    \/ CoveReturn
    \/ CoveExcept

SpecCove == InitCove /\ [][NextCove]_vars

\* the embedding call of a claim has raised: the loop over the claims was
\* entered and left before its end
EmbeddingFailed == claim_index \in 1..Len(cove_claims)

\* C12: when the embedding call fails while a claim is mapped, the call ends
\* with a verification in which that claim is UNRESOLVED with the reasoning
\* "evidence mapping failed" and in which every other claim that has a text
\* is classified too.
C12_FailedMappingIsUnresolved ==
    (pc = "cove_done" /\ EmbeddingFailed) =>
        /\ verification # <<>>
        /\ \E j \in 1..Len(verification[1].verified_claims) :
              LET c == verification[1].verified_claims[j]
              IN  /\ c.claim_id = cove_claims[claim_index].claim_id
                  /\ c.status = "UNRESOLVED"
                  /\ c.reasoning = "evidence mapping failed"
        /\ \A i \in 1..Len(cove_claims) :
              cove_claims[i].claim # "" =>
                  \E j \in 1..Len(verification[1].verified_claims) :
                     verification[1].verified_claims[j].claim_id
                         = cove_claims[i].claim_id

\* C13: when the extraction call fails or its answer is no JSON array,
\* extract_claims returns exactly one claim: the whole answer text, category
\* "general", flagged as an extraction error (and never an empty list).
C13_ExtractionFallbackIsWholeAnswer ==
    (llm_response # <<>> /\ llm_response[1].kind # "list") =>
        /\ Len(cove_claims) = 1
        /\ cove_claims[1].claim = DraftText
        /\ cove_claims[1].category = "general"
        /\ cove_claims[1].extraction_error

\* ------------------------------------------------------------------------
\* retrieval/mq_expander.py
\* ------------------------------------------------------------------------

\* longest JSON array the expansion model answers with
MaxItems == 3

\* A query text is a sequence of words.  A word is a number; -w is the word w
\* written with capitals.

\* str.lower() of a word
LowerWord(w) == IF w < 0 THEN -w ELSE w

\* set(text.lower().split())
TokenSet(text) == {LowerWord(text[p]) : p \in 1..Len(text)}

\* overlap / total of two token sets, as <<overlap, total>>
Overlap(a, b) == <<Cardinality(a \cap b), Cardinality(a \cup b)>>

\* the query expand_query is called with
OriginalQuery == <<-1, 2, 3, 4, 5, 6, 7, 8, 9>>

\* texts the expansion model answers with: the words of the original in
\* another order, the original with a word more (overlap 9/10), with a word
\* less (8/9), with two words less (7/9), and a text with other words
QueryTexts ==
    {<<9, 8, 7, 6, 5, 4, 3, 2, 1>>,
     <<1, 2, 3, 4, 5, 6, 7, 8, 9, 10>>,
     <<1, 2, 3, 4, 5, 6, 7, 8>>,
     <<1, 2, 3, 4, 5, 6, 7>>,
     <<11, 12>>}

\* weights are numerators over WeightScale
WeightScale == 2 * 5

\* weights the expansion model gives: none, 0.8, 1.5
GivenWeights == {<<>>, <<8>>, <<15>>}

\* items of the JSON array: no dict with a "query" key ("junk"), a dict whose
\* "query" is not a string ("bad_query"), or a dict with a query text
ExpandItems ==
    {[kind |-> k, query |-> <<>>, weight |-> <<>>] : k \in {"junk", "bad_query"}}
    \cup {[kind |-> "query", query |-> t, weight |-> w] :
             t \in QueryTexts, w \in GivenWeights}

\* what the expansion call does: it raises, or answers text that is no JSON,
\* JSON that is no list, or a JSON list of at most MaxItems items
ExpandOutputs ==
    {[kind |-> k, items |-> <<>>] : k \in {"error", "not_json", "not_list"}}
    \cup {[kind |-> "list", items |-> its] :
             its \in UNION {[1..m -> ExpandItems] : m \in 0..MaxItems}}

\* the dict of the original query without the "expansion_error" key, whatever
\* happened
OriginalVariantUnflagged(query, failed) ==
    [kind |-> "query", query |-> query, weight |-> WeightScale,
     variation_type |-> "original", expansion_error |-> FALSE]

\* the dict of the original query, with or without the error flag
OriginalVariant(query, failed) ==
    [kind |-> "query", query |-> query, weight |-> WeightScale,
     variation_type |-> "original", expansion_error |-> failed]

\* "Ensure each has required fields": the item at position i (from 1; the
\* code counts from 0) with its defaults, kept when it is a dict with "query"
ValidatedItem(item, i) ==
    [keep |-> item.kind # "junk",
     v |-> [kind |-> item.kind, query |-> item.query,
            weight |-> IF item.weight = <<>> THEN WeightScale - (i - 1)
                       ELSE item.weight[1],
            variation_type |-> "general", expansion_error |-> FALSE]]

\* is_duplicate of _deduplicate_queries: more than 85% word overlap with one
\* of the queries kept so far
IsDuplicate(query_obj, deduplicated) ==
    \E j \in 1..Len(deduplicated) :
        LET o == Overlap(TokenSet(query_obj.query), TokenSet(deduplicated[j].query))
        IN  o[2] > 0 /\ o[1] * 100 > 85 * o[2]

\* the loop of _deduplicate_queries from position i on
RECURSIVE DedupLoop(_, _, _)
DedupLoop(queries, i, deduplicated) ==
    IF i > Len(queries) THEN deduplicated
    ELSE IF IsDuplicate(queries[i], deduplicated)
    THEN DedupLoop(queries, i + 1, deduplicated)
    ELSE DedupLoop(queries, i + 1, Append(deduplicated, queries[i]))

deduplicate_queries(queries) ==
    IF Len(queries) <= 2 THEN queries ELSE DedupLoop(queries, 1, <<>>)

\* the loop of validate_query_quality from position i on: a query is kept
\* when its overlap with the original is below 0.9
RECURSIVE QualityLoop(_, _, _)
QualityLoop(original_words, expanded, i) ==
    IF i > Len(expanded) THEN <<>>
    ELSE LET o == Overlap(original_words, TokenSet(expanded[i].query))
             keep == IF o[2] > 0 THEN o[1] * 10 < 9 * o[2] ELSE TRUE
         IN  (IF keep THEN <<expanded[i]>> ELSE <<>>)
                 \o QualityLoop(original_words, expanded, i + 1)

validate_query_quality(original, expanded) ==
    LET validated == QualityLoop(TokenSet(original), expanded, 1)
    IN  IF validated = <<>> THEN <<OriginalVariant(original, FALSE)>>
        ELSE validated

\* expand_query, given what the call of the expansion model did.  A query
\* that is not a string makes .lower() raise, in _deduplicate_queries or in
\* validate_query_quality, whichever comes to it first.
expand_query(query, out) ==
    IF out.kind # "list" THEN <<OriginalVariant(query, TRUE)>>
    ELSE LET marked == [i \in 1..Len(out.items) |-> ValidatedItem(out.items[i], i)]
             kept == SelectEq(marked, "keep", TRUE, 1)
             validated == [j \in 1..Len(kept) |-> kept[j].v]
             deduplicated ==
                 validate_query_quality(query, deduplicate_queries(validated))
         IN  IF \E j \in 1..Len(validated) : validated[j].kind = "bad_query"
             THEN <<OriginalVariant(query, TRUE)>>
             ELSE IF Len(deduplicated) < 2
             THEN Append(deduplicated, OriginalVariant(query, FALSE))
             ELSE deduplicated

InitExpand ==
    /\ pc = "expand_call"
    /\ \E out \in ExpandOutputs : llm_response = <<out>>
    /\ config = UnreadConfig
    /\ expanded_queries = <<>>
    /\ bm25_lists = <<>>
    /\ vector_lists = <<>>
    /\ all_bm25_results = <<>>
    /\ all_vector_results = <<>>
    /\ all_searches_failed = FALSE
    /\ fused_chunks = <<>>
    /\ final_chunks = <<>>
    /\ result = <<>>
    /\ evidence_mappings = <<>>
    /\ verification = <<>>
    /\ cove_claims = <<>>
    /\ claim_index = 1
    /\ remaining = <<>>

ExpandCall ==
    /\ pc = "expand_call"
    /\ expanded_queries' = expand_query(OriginalQuery, llm_response[1])
    /\ pc' = "expand_return"
    /\ UNCHANGED <<config, bm25_lists, vector_lists, all_bm25_results,
                   all_vector_results, all_searches_failed, fused_chunks,
                   final_chunks, result, evidence_mappings, verification,
                   llm_response, cove_claims, claim_index>>
    /\ UNCHANGED remaining

NextExpand == ExpandCall

SpecExpand == InitExpand /\ [][NextExpand]_vars

\* ------------------------------------------------------------------------
\* Properties of expand_query
\* ------------------------------------------------------------------------

Returned == pc = "expand_return"

\* the expansion service was unavailable or its answer was no JSON array
ExpansionFailed == llm_response[1].kind \in {"error", "not_json", "not_list"}

\* C14: expand_query always returns at least one variant, and when the
\* expansion service is unavailable or its answer cannot be parsed it returns
\* exactly one: the original query, weight 1.0, type "original", flagged with
\* the error.
C14_ExpandAlwaysReturnsVariant ==
    Returned =>
        /\ Len(expanded_queries) >= 1
        /\ ExpansionFailed =>
              /\ Len(expanded_queries) = 1
              /\ expanded_queries[1].query = OriginalQuery
              /\ expanded_queries[1].weight = WeightScale
              /\ expanded_queries[1].variation_type = "original"
              /\ expanded_queries[1].expansion_error

C14_Witness ==
    /\ Returned
    /\ llm_response[1].kind = "not_json"
    /\ expanded_queries = <<OriginalVariant(OriginalQuery, TRUE)>>

\* C15: no two variants of the result have a token-set overlap above 0.85.
C15_NoTwoVariantsOverlap ==
    Returned =>
        \A i, j \in 1..Len(expanded_queries) :
            i < j =>
                LET o == Overlap(TokenSet(expanded_queries[i].query),
                                 TokenSet(expanded_queries[j].query))
                IN  ~(o[2] > 0 /\ o[1] * 100 > 85 * o[2])

\* the generated variants that are dicts with a query text
GeneratedTexts ==
    {llm_response[1].items[i].query :
        i \in {p \in 1..Len(llm_response[1].items) :
                  llm_response[1].items[p].kind = "query"}}

\* the relevance filter would discard every generated variant: each overlaps
\* the original by more than 0.90, or there is none
AllWouldBeDiscarded ==
    /\ llm_response[1].kind = "list"
    /\ \A i \in 1..Len(llm_response[1].items) :
           llm_response[1].items[i].kind # "bad_query"
    /\ \A t \in GeneratedTexts :
           LET o == Overlap(TokenSet(OriginalQuery), TokenSet(t))
           IN  o[1] * 100 > 90 * o[2]

\* C16: when the relevance filter would discard every generated variant, the
\* result is the original query only: one variant, of type "original".
C16_AllFilteredGivesOriginalOnly ==
    (Returned /\ AllWouldBeDiscarded) =>
        /\ Len(expanded_queries) = 1
        /\ expanded_queries[1].variation_type = "original"

\* C17: every returned variant has a weight between 0 and 1.
C17_WeightsInUnitInterval ==
    Returned =>
        \A i \in 1..Len(expanded_queries) :
            /\ expanded_queries[i].weight >= 0
            /\ expanded_queries[i].weight <= WeightScale

\* ------------------------------------------------------------------------
\* Properties of the fusion and selection stages of execute_rag_search
\* ------------------------------------------------------------------------

\* the score a search method gave the chunk itself: chunk[key]
NativeScore(chunk, key) == IF chunk[key] # <<>> THEN chunk[key][1] ELSE 0

\* non-increasing native score along the list
InNativeOrder(chunks, key) ==
    \A i \in 1..(Len(chunks) - 1) :
        NativeScore(chunks[i], key) >= NativeScore(chunks[i + 1], key)

\* every chunk's rrf_score is its native score
ScoredNatively(chunks, key) ==
    \A i \in 1..Len(chunks) :
        /\ chunks[i].rrf_score # <<>>
        /\ Relevance(chunks[i]) = NativeScore(chunks[i], key)

\* the fusion stage has run and exactly one method had results for it
OnlyOneMethodHasResults ==
    /\ pc = "select"
    /\ (all_bm25_results = <<>>) # (all_vector_results = <<>>)

\* C18: when only one search method produced results, every candidate's
\* fused score is that method's native score and the fused list is that
\* method's results sorted by native score.
C18_SingleMethodKeepsNativeScores ==
    OnlyOneMethodHasResults =>
        LET key     == IF all_bm25_results # <<>> THEN "bm25_score"
                       ELSE "vector_score"
            results == IF all_bm25_results # <<>> THEN all_bm25_results
                       ELSE all_vector_results
        IN  /\ ScoredNatively(fused_chunks, key)
            /\ InNativeOrder(fused_chunks, key)
            /\ IdsOf(fused_chunks) = IdsOf(results)

\* the fusion stage was disabled and handed the results of one method on
FusionDisabled ==
    /\ pc = "select"
    /\ ~config.rrf_enabled
    /\ (all_bm25_results # <<>> \/ all_vector_results # <<>>)

\* C19: with fusion disabled, the candidates handed to selection are the
\* results of the one method in non-increasing order of native score, each
\* with its native score as relevance.
C19_FusionDisabledHandsNativeRanking ==
    FusionDisabled =>
        LET key == IF all_vector_results # <<>> THEN "vector_score"
                   ELSE "bm25_score"
        IN  /\ Len(fused_chunks) =
                  Len(IF all_vector_results # <<>> THEN all_vector_results
                      ELSE all_bm25_results)
            /\ \A i \in 1..Len(fused_chunks) :
                  fused_chunks[i].retrieval_method =
                      (IF key = "vector_score" THEN "vector" ELSE "bm25")
            /\ ScoredNatively(fused_chunks, key)
            /\ InNativeOrder(fused_chunks, key)

\* mmr_select was called with more than n >= 1 candidates, none of which has
\* an embedding
SelectedWithoutEmbeddings ==
    /\ pc = "respond"
    /\ config.mmr_enabled
    /\ config.final_chunks >= 1
    /\ Len(fused_chunks) > config.final_chunks
    /\ \A i \in 1..Len(fused_chunks) : fused_chunks[i].embedding = <<>>

\* C20: without embeddings mmr_select returns the n candidates of highest
\* fused score, in non-increasing order of fused score.
C20_NoEmbeddingsGivesTopNByScore ==
    SelectedWithoutEmbeddings =>
        /\ Len(final_chunks) = config.final_chunks
        /\ \A i \in 1..Len(final_chunks) :
              /\ \E j \in 1..Len(fused_chunks) : fused_chunks[j] = final_chunks[i]
              /\ Relevance(final_chunks[i]) = Relevance(SortDesc(fused_chunks)[i])

\* ------------------------------------------------------------------------
\* Properties of mmr_select
\* ------------------------------------------------------------------------

MmrReturned == pc = "mmr_return"

\* C21: for n >= 1 and between 1 and n candidates, mmr_select returns the
\* input candidates in unchanged order, with or without embeddings.
C21_FewCandidatesReturnedUnchanged ==
    (/\ MmrReturned
     /\ config.final_chunks >= 1
     /\ Len(fused_chunks) >= 1
     /\ Len(fused_chunks) <= config.final_chunks)
        => final_chunks = fused_chunks

C21_Witness ==
    /\ MmrReturned
    /\ Len(fused_chunks) = 2
    /\ config.final_chunks = 2
    /\ fused_chunks[1].embedding = <<>>
    /\ fused_chunks[2].embedding # <<>>
    /\ final_chunks = fused_chunks

\* ------------------------------------------------------------------------
\* Order of the searches and the fusion within one call
\* ------------------------------------------------------------------------

\* what PHASE 3.3 makes of the answers of the backends, taken variant by
\* variant in the order of expanded_queries, lexical and semantic apart
FusionOfAnswers ==
    LET bm25   == Flatten(bm25_lists)
        vector == Flatten(vector_lists)
    IN  IF config.rrf_enabled /\ (bm25 # <<>> \/ vector # <<>>)
        THEN rrf_fusion(bm25, vector, config.k_parameter)
        ELSE IF vector # <<>> THEN WithFakeRrf(vector, "vector_score")
        ELSE IF bm25 # <<>> THEN WithFakeRrf(bm25, "bm25_score")
        ELSE <<>>

\* C22: fusion starts only when both searches of every variant have
\* completed, and its inputs are the answers in variant order, per method:
\* the fused list is a function of the answers alone.
C22_FusionAfterAllSearchesInVariantOrder ==
    /\ pc \in {"bm25", "vector"} => fused_chunks = <<>>
    /\ pc \in {"fuse", "select", "respond"} =>
          /\ Len(bm25_lists) = Len(expanded_queries)
          /\ Len(vector_lists) = Len(expanded_queries)
    /\ pc \in {"select", "respond"} => fused_chunks = FusionOfAnswers

C22_Witness ==
    /\ pc = "select"
    /\ config.rrf_enabled
    /\ Len(expanded_queries) = 2
    /\ vector_lists[1] # <<>>
    /\ vector_lists[2] # <<>>
    /\ vector_lists[1][1].chunk_id # vector_lists[2][1].chunk_id
    /\ fused_chunks = FusionOfAnswers

\* ------------------------------------------------------------------------
\* rrf_fusion and mmr_select run twice on the same result lists
\* ------------------------------------------------------------------------

\* the record of written that has this chunk_id, or the row itself
WrittenRecord(row, written) ==
    IF IndexOfId(written, row.chunk_id) = 0 THEN row
    ELSE written[IndexOfId(written, row.chunk_id)]

\* rows that are themselves the dicts of chunk_data: the first row of every
\* chunk_id carries what fusion and selection wrote
RowsAfterRunAliased(results, earlier, written) ==
    [p \in 1..Len(results) |->
        IF IndexOfId(earlier \o SubSeq(results, 1, p - 1), results[p].chunk_id) = 0
        THEN WrittenRecord(results[p], written)
        ELSE results[p]]

\* The rows of a result list after a run.  chunk_data holds result.copy(), so
\* rrf_score, found_in_methods, in_both_methods, the merged scores and
\* embedding, and the mmr_score of mmr_select are written into the copies:
\* the rows are as they were.
RowsAfterRun(results, earlier, written) ==
    [p \in 1..Len(results) |-> results[p]]

\* what a run wrote, record by record: the fused chunks, with the mmr_score
\* of those that were selected
WrittenBy(fused, selected) ==
    [j \in 1..Len(fused) |-> WrittenRecord(fused[j], selected)]

\* the order of a list: source and id of every chunk
OrderOf(chunks) ==
    [j \in 1..Len(chunks) |-> <<chunks[j].source_type, chunks[j].chunk_id>>]

InitTwice ==
    /\ pc = "run_1"
    /\ \E k \in KValues : \E n \in 0..MaxN : \E lambda \in LambdaValues :
          config = [UnreadConfig EXCEPT !.k_parameter = k, !.final_chunks = n,
                                        !.lambda_param = lambda]
    /\ \E cs \in ChunkLists : all_bm25_results = Bm25List(cs)
    /\ \E cs \in ChunkLists : all_vector_results = VectorList(cs)
    /\ bm25_lists = <<all_bm25_results>>
    /\ vector_lists = <<all_vector_results>>
    /\ expanded_queries = <<>>
    /\ all_searches_failed = FALSE
    /\ fused_chunks = <<>>
    /\ final_chunks = <<>>
    /\ result = <<>>
    /\ evidence_mappings = <<>>
    /\ verification = <<>>
    /\ llm_response = <<>>
    /\ cove_claims = <<>>
    /\ claim_index = 1
    /\ remaining = <<>>

\* one run: rrf_fusion of the two lists, then mmr_select of what it returned.
\* result keeps the selection of the first run.
FuseSelectRun ==
    /\ pc \in {"run_1", "run_2"}
    /\ fused_chunks' = rrf_fusion(all_bm25_results, all_vector_results,
                                  config.k_parameter)
    /\ final_chunks' = mmr_select(fused_chunks', config.final_chunks,
                                  config.lambda_param)
    /\ all_bm25_results' =
          RowsAfterRun(all_bm25_results, <<>>,
                       WrittenBy(fused_chunks', final_chunks'))
    /\ all_vector_results' =
          RowsAfterRun(all_vector_results, all_bm25_results,
                       WrittenBy(fused_chunks', final_chunks'))
    /\ result' = IF pc = "run_1" THEN <<final_chunks'>> ELSE result
    /\ pc' = IF pc = "run_1" THEN "run_2" ELSE "runs_done"
    /\ UNCHANGED <<config, expanded_queries, bm25_lists, vector_lists,
                   all_searches_failed, evidence_mappings, verification>>
    /\ UNCHANGED <<coveVars, remaining>>

NextTwice == FuseSelectRun

SpecTwice == InitTwice /\ [][NextTwice]_vars

AnswerLists ==
    {w \o i :
        w \in {r \in ChunkLists :
                 /\ \A a \in 1..Len(r) : r[a][1] = "website"
                 /\ \A a, b \in 1..Len(r) : a # b => r[a] # r[b]},
        i \in {r \in ChunkLists :
                 /\ Len(r) <= MaxHits
                 /\ \A a \in 1..Len(r) : r[a][1] = "internal"
                 /\ \A a, b \in 1..Len(r) : a # b => r[a] # r[b]}}

\* the answers of m variants, no more than MaxRank rows together
AnswersOfVariants(m) ==
    {as \in [1..m -> AnswerLists] : Len(Flatten(as)) <= MaxRank}

\* the call has searched with both methods for every variant and is about to
\* fuse
InitTop ==
    /\ pc = "fuse"
    /\ config = [UnreadConfig EXCEPT !.bm25_enabled = TRUE,
                                     !.vector_enabled = TRUE]
    /\ \E m \in 1..MaxVariants :
          /\ expanded_queries =
                 [q \in 1..m |-> [query |-> q, expansion_error |-> FALSE]]
          /\ \E as \in AnswersOfVariants(m) :
                 bm25_lists = [q \in 1..m |-> Bm25List(as[q])]
          /\ \E as \in AnswersOfVariants(m) :
                 vector_lists = [q \in 1..m |-> VectorList(as[q])]
    /\ all_bm25_results = Flatten(bm25_lists)
    /\ all_vector_results = Flatten(vector_lists)
    /\ all_searches_failed = FALSE
    /\ fused_chunks = <<>>
    /\ final_chunks = <<>>
    /\ result = <<>>
    /\ evidence_mappings = <<>>
    /\ verification = <<>>
    /\ llm_response = <<>>
    /\ cove_claims = <<>>
    /\ claim_index = 1
    /\ remaining = <<>>

NextTop == Fuse \/ Select

SpecTop == InitTop /\ [][NextTop]_vars

\* the chunk is in the list
Holds(chunks, src, id) ==
    \E j \in 1..Len(chunks) :
        chunks[j].source_type = src /\ chunks[j].chunk_id = id

\* the chunk is ranked first in the lexical list and in the semantic list of
\* every variant
RankedFirstInAllLists(src, id) ==
    \A q \in 1..Len(expanded_queries) :
        /\ bm25_lists[q] # <<>>
        /\ bm25_lists[q][1].source_type = src
        /\ bm25_lists[q][1].chunk_id = id
        /\ vector_lists[q] # <<>>
        /\ vector_lists[q][1].source_type = src
        /\ vector_lists[q][1].chunk_id = id

\* C24: a passage ranked first in the lexical and in the semantic lists of a
\* run is in the final selection, for every selection size n >= 1.
C24_TopOfBothListsIsSelected ==
    \A c \in StoredChunks :
        (/\ pc = "respond"
         /\ (config.mmr_enabled => config.final_chunks >= 1)
         /\ RankedFirstInAllLists(c[1], c[2]))
            => Holds(final_chunks, c[1], c[2])

\* C27: a chunk of the website corpus and a chunk of the internal corpus stay
\* two fused candidates: every chunk of the result lists, told apart by
\* corpus and id, is among the fused chunks.
C27_CorporaStaySeparate ==
    pc = "rrf_return" =>
        \A c \in StoredChunks :
            Holds(all_bm25_results \o all_vector_results, c[1], c[2])
                => Holds(fused_chunks, c[1], c[2])

\* ------------------------------------------------------------------------
\* rrf_fusion called with its default k
\* ------------------------------------------------------------------------

InitDefaultK ==
    /\ pc = "rrf_call"
    /\ config = [UnreadConfig EXCEPT !.k_parameter = DefaultK]
    /\ \E cs \in ChunkLists : all_bm25_results = Bm25List(cs)
    /\ \E cs \in ChunkLists : all_vector_results = VectorList(cs)
    /\ expanded_queries = <<>>
    /\ bm25_lists = <<>>
    /\ vector_lists = <<>>
    /\ all_searches_failed = FALSE
    /\ fused_chunks = <<>>
    /\ final_chunks = <<>>
    /\ result = <<>>
    /\ evidence_mappings = <<>>
    /\ verification = <<>>
    /\ llm_response = <<>>
    /\ cove_claims = <<>>
    /\ claim_index = 1
    /\ remaining = <<>>

NextDefaultK == FuseCall

SpecDefaultK == InitDefaultK /\ [][NextDefaultK]_vars

\* the id is at rank 1 of the list and nowhere else in it
OnlyAtRankOne(list, id) ==
    /\ list # <<>>
    /\ \A p \in 1..Len(list) : (list[p].chunk_id = id) <=> (p = 1)

\* C25: with k = 60, a candidate at rank 1 of the lexical list and at rank 1
\* of the semantic list, and at no other rank, gets the fused score 2/(60+1).
C25_TopOfBothScoresTwoOver61 ==
    \A id \in WebsiteIds :
        (/\ pc = "rrf_return"
         /\ OnlyAtRankOne(all_bm25_results, id)
         /\ OnlyAtRankOne(all_vector_results, id))
            => \E j \in 1..Len(fused_chunks) :
                  /\ fused_chunks[j].chunk_id = id
                  /\ fused_chunks[j].rrf_score[1] * (60 + 1) = 2 * DefaultUnit
                  /\ \A i \in 1..Len(fused_chunks) :
                        fused_chunks[i].chunk_id = id => i = j

C25_Witness ==
    /\ pc = "rrf_return"
    /\ config.k_parameter = 60
    /\ OnlyAtRankOne(all_bm25_results, 1)
    /\ OnlyAtRankOne(all_vector_results, 1)
    /\ Len(all_bm25_results) = 2
    /\ Len(fused_chunks) = 2
    /\ fused_chunks[1].chunk_id = 1
    /\ fused_chunks[1].rrf_score[1] * 61 = 2 * DefaultUnit

\* C26: for more than n >= 1 candidates mmr_select returns exactly n, also
\* when only some of them have an embedding.
C26_ReturnsExactlyN ==
    (/\ MmrReturned
     /\ config.final_chunks >= 1
     /\ Len(fused_chunks) > config.final_chunks)
        => Len(final_chunks) = config.final_chunks

\* ------------------------------------------------------------------------
\* Properties of verify_response
\* ------------------------------------------------------------------------

\* C28: in every result of verify_response the four counts add up to
\* claims_extracted: every extracted claim has one mapping and one verdict.
C28_CountsAddUpToExtracted ==
    verification # <<>> =>
        /\ verification[1].supported_count
             + verification[1].partially_supported_count
             + verification[1].unresolved_count
             + verification[1].contradicted_count
               = verification[1].claims_extracted
        /\ Len(verification[1].verified_claims) = verification[1].claims_extracted

\* C29: the overall confidence of verify_response is 0 when no claim is
\* SUPPORTED, also when no claim was extracted.
C29_NoSupportNoConfidence ==
    (verification # <<>> /\ verification[1].supported_count = 0)
        => verification[1].coVe_confidence[1] = 0

\* ------------------------------------------------------------------------
\* Termination: execute_rag_search, and mmr_select with its loop step by step
\* ------------------------------------------------------------------------

\* mmr_select is called on its own
InitLoop ==
    /\ pc = "mmr_enter"
    /\ \E n \in 0..MaxN : \E lambda \in LambdaValues :
          config = [UnreadConfig EXCEPT !.final_chunks = n,
                                        !.lambda_param = lambda]
    /\ \E ks \in CandLists :
          fused_chunks =
              [p \in 1..Len(ks) |-> Candidate(p, ks[p][1], ks[p][2], ks[p][3])]
    /\ expanded_queries = <<>>
    /\ bm25_lists = <<>>
    /\ vector_lists = <<>>
    /\ all_bm25_results = <<>>
    /\ all_vector_results = <<>>
    /\ all_searches_failed = FALSE
    /\ final_chunks = <<>>
    /\ result = <<>>
    /\ evidence_mappings = <<>>
    /\ verification = <<>>
    /\ llm_response = <<>>
    /\ cove_claims = <<>>
    /\ claim_index = 1
    /\ remaining = <<>>

\* mmr_select up to its loop: the early returns, or the first candidate with
\* an embedding is selected and the others with an embedding remain.
\* final_chunks is the list selected.
MmrEnter ==
    /\ pc = "mmr_enter"
    /\ LET candidates == fused_chunks
           n == config.final_chunks
           candidates_with_embeddings ==
               SelectPresent(candidates, "embedding", 1)
       IN  IF candidates = <<>> \/ n <= 0
           THEN /\ final_chunks' = <<>>
                /\ remaining' = <<>>
                /\ pc' = "mmr_return"
           ELSE IF Len(candidates) <= n
           THEN /\ final_chunks' = candidates
                /\ remaining' = <<>>
                /\ pc' = "mmr_return"
           ELSE IF candidates_with_embeddings = <<>>
           THEN /\ final_chunks' = Prefix(candidates, n)
                /\ remaining' = <<>>
                /\ pc' = "mmr_return"
           ELSE /\ final_chunks' = <<Head(candidates_with_embeddings)>>
                /\ remaining' = Tail(candidates_with_embeddings)
                /\ pc' = "mmr_loop"
    /\ UNCHANGED <<config, expanded_queries, bm25_lists, vector_lists,
                   all_bm25_results, all_vector_results, all_searches_failed,
                   fused_chunks, result, evidence_mappings, verification>>
    /\ UNCHANGED coveVars

\* an iteration that takes a candidate only when its MMR score is positive
MmrIterationPositiveOnly ==
    /\ pc = "mmr_loop"
    /\ Len(final_chunks) < config.final_chunks /\ remaining # <<>>
    /\ LET best == BestScan(remaining, final_chunks, config.lambda_param, 1,
                            [score |-> <<>>, idx |-> 1])
       IN  IF best.score # <<>> /\ best.score[1] > 0
           THEN /\ final_chunks' =
                       Append(final_chunks,
                              [remaining[best.idx] EXCEPT !.mmr_score = best.score])
                /\ remaining' = RemoveAt(remaining, best.idx)
           ELSE UNCHANGED <<final_chunks, remaining>>
    /\ pc' = pc
    /\ UNCHANGED <<config, expanded_queries, bm25_lists, vector_lists,
                   all_bm25_results, all_vector_results, all_searches_failed,
                   fused_chunks, result, evidence_mappings, verification>>
    /\ UNCHANGED coveVars

\* one iteration of "while len(selected) < n and remaining": the scan, then
\* remaining.pop(best_idx) when best_idx < len(remaining)
MmrIteration ==
    /\ pc = "mmr_loop"
    /\ Len(final_chunks) < config.final_chunks /\ remaining # <<>>
    /\ LET best == BestScan(remaining, final_chunks, config.lambda_param, 1,
                            [score |-> <<>>, idx |-> 1])
       IN  IF best.idx - 1 < Len(remaining)
           THEN /\ final_chunks' =
                       Append(final_chunks,
                              [remaining[best.idx] EXCEPT !.mmr_score = best.score])
                /\ remaining' = RemoveAt(remaining, best.idx)
           ELSE UNCHANGED <<final_chunks, remaining>>
    /\ pc' = pc
    /\ UNCHANGED <<config, expanded_queries, bm25_lists, vector_lists,
                   all_bm25_results, all_vector_results, all_searches_failed,
                   fused_chunks, result, evidence_mappings, verification>>
    /\ UNCHANGED coveVars

\* the loop condition is false: return selected
MmrExit ==
    /\ pc = "mmr_loop"
    /\ ~(Len(final_chunks) < config.final_chunks /\ remaining # <<>>)
    /\ pc' = "mmr_return"
    /\ UNCHANGED <<config, expanded_queries, bm25_lists, vector_lists,
                   all_bm25_results, all_vector_results, all_searches_failed,
                   fused_chunks, final_chunks, result, evidence_mappings,
                   verification, remaining>>
    /\ UNCHANGED coveVars

InitLive == Init \/ InitLoop

NextLive ==
    \/ ValidateInput
    \/ Expand
    \/ SearchBM25
    \/ SearchVector
    \/ Fuse
    \/ Select
    \/ Respond
    \/ Except
    \/ MmrEnter
    \/ MmrIteration
    \/ MmrExit

\* a call that can take a step takes one: every external call has returned
\* or raised by the time the action that makes it is taken
SpecLive == InitLive /\ [][NextLive]_vars /\ WF_vars(NextLive)

\* C30: every call of execute_rag_search returns; every iteration of the loop
\* of mmr_select takes exactly one candidate out of remaining, and the loop
\* ends after at most n - 1 iterations, with what mmr_select returns.
C30_EveryCallReturns ==
    /\ <>(pc \in {"done", "mmr_return"})
    /\ [][(pc = "mmr_loop" /\ pc' = "mmr_loop") =>
             /\ Len(remaining') = Len(remaining) - 1
             /\ Len(final_chunks') = Len(final_chunks) + 1]_vars
    /\ [](pc = "mmr_loop" => Len(final_chunks) - 1 <= config.final_chunks - 1)
    /\ [](pc = "mmr_return" =>
             final_chunks = mmr_select(fused_chunks, config.final_chunks,
                                       config.lambda_param))
    /\ [](pc = "done" => result # <<>>)

C30_Witness ==
    /\ pc = "mmr_return"
    /\ Len(fused_chunks) = 3
    /\ Len(final_chunks) = 2
    /\ final_chunks[2].mmr_score # <<>>
    /\ final_chunks[2].mmr_score[1] < 0
    /\ Len(remaining) = 1

====
